---- MODULE Spec2Model ----
(***************************************************************************)
(* Sigenergy cloud client (package sigen).                                 *)
(*                                                                         *)
(* Two state machines share one clock:                                     *)
(*   - the MQTT stream session, SigenMQTT (mqtt.py), with its key-based    *)
(*     NorthboundClient (northbound.py): specification Spec / FairSpec;    *)
(*   - the REST client, Sigen (client.py), with its TokenManager           *)
(*     (auth.py) and the REST helpers: specification ClientSpec.           *)
(*                                                                         *)
(* Every "await" of the code that really suspends is a position (a pc      *)
(* value); the code between two such positions is one action.              *)
(***************************************************************************)
EXTENDS Integers, Sequences, FiniteSets, TLC

\* ------------------------------------------------------------------ bounds
\* Number of clock ticks the model lets pass.
MaxTicks == 3
\* Number of distinct access tokens the server can hand out.
NumTokens == 2
\* Number of configured system ids (SigenMQTT.system_ids).
NumSystems == 2
\* Broker sessions are numbered up to this (the number saturates).
MaxConn == 2
\* Largest number of entries in one /period/ payload.
MaxEntries == 2
\* Raw numbers of a telemetry field range over -MaxRaw..MaxRaw.
MaxRaw == 2
\* Number of load paths, and largest length of a smart-load list.
NumPaths == 1
MaxLoads == 2
\* Largest length of a list of the cached operational modes.
MaxModes == 2

\* ------------------------------------------------------- program constants
\* mqtt.py:256  await asyncio.sleep(30)
BROKER_BACKOFF_S == 30
\* mqtt.py:266  await asyncio.sleep(60)
OTHER_BACKOFF_S == 60
\* northbound.py:88  data.get("expiresIn", 43199)
DEFAULT_EXPIRES_IN == 43199
\* mqtt.py:32  TOKEN_REFRESH_MARGIN_S = 3600
TOKEN_REFRESH_MARGIN_S == 3600
\* send_battery_commands: "Max 24 commands per batch."
MAX_BATCH == 24

\* Python's None, for fields that otherwise hold a number.
None == 0 - 1
\* A value of a JSON field that is present but is not a number.
NotANumber == 0 - 2
\* A JSON key that is absent from the response.
Absent == 0 - 3

\* The clock advances in steps of TickS seconds and starts at a positive
\* instant (time.time() is seconds since the epoch).
TickS == BROKER_BACKOFF_S
StartTime == TickS
MaxTime == StartTime + MaxTicks * TickS

Tokens == 1..NumTokens
\* expiresIn / expires_in values a login response can carry.
ExpiresInValues == {TickS}
SystemIds == 1..NumSystems
Cats == <<"period", "change", "alarm">>
CatSet == {"period", "change", "alarm"}

\* The sequences over S of length n at most.
RECURSIVE SeqsUpTo(_, _)
SeqsUpTo(S, n) ==
  IF n = 0 THEN {<<>>}
  ELSE LET shorter == SeqsUpTo(S, n - 1)
       IN  shorter \cup {Append(q, x) : q \in shorter, x \in S}

\* Python truthiness of an optional number / string: None, 0 and "" are falsy.
Truthy(x) == x /= None /\ x /= 0

VARIABLES
  now,          \* time.time()
  \* ---- SigenMQTT
  nb_client,    \* SigenMQTT._nb_client (present = FALSE: None)
  mqtt_client,  \* SigenMQTT._mqtt_client: None or the broker session number
  connected,    \* SigenMQTT._connected
  listen_task,  \* SigenMQTT._listen_task: None or a task handle
  lpc,          \* position of the task running listen()
  handlers,     \* the callbacks passed to listen(): which ones are registered
  token,        \* local "token" of listen() / _subscribe()
  idx,          \* position in the publishes / in the topic loop of _subscribe
  conn,         \* number of the latest broker session
  session,      \* what the broker holds for the open session
  backoff,      \* the exception listen() caught last: its except clause, the
                \* await it was raised at, when, and the deadline of the sleep
  cur,          \* the message whose handler is running
  disc          \* "no", or where listen() was when disconnect() returned

mqttVars == <<nb_client, mqtt_client, connected, listen_task, lpc, handlers,
              token, idx, conn, session, backoff, cur, disc>>

VARIABLES
  \* ---- Sigen (REST client)
  tm,                 \* Sigen._token_mgr: the TokenManager's three fields
  sigen_nb,           \* Sigen._nb_client (present = FALSE: None)
  smart_load_id_map,  \* Sigen.smart_load_id_map: load path -> smartLoadId
                      \* (Absent: the dict has no such key)
  tasks               \* the tasks calling the client, each with its position

clientVars == <<tm, sigen_nb, smart_load_id_map, tasks>>

VARIABLES
  cmd                \* the task calling connect() / send_battery_commands()

cmdVars == <<cmd>>

VARIABLES
  app_key            \* SigenMQTT.app_key, as the segments between its "/"

cfgVars == <<app_key>>

VARIABLES
  entry,             \* the raw entry handed to TelemetryData.from_mqtt_payload
  decoded            \* what the call gave: a TelemetryData or an exception

decodeVars == <<entry, decoded>>

VARIABLES
  rest               \* one call of a REST helper: the helper, the response
                     \* it received and how the call ended

restVars == <<rest>>

VARIABLES
  mode_call          \* one call of get_current_operational_mode: the cached
                     \* modes, the "data" of the response and the result

modeVars == <<mode_call>>

VARIABLES
  station_id,        \* Sigen.station_id: None or the id of the station
  operational_modes  \* Sigen.operational_modes: None or the fetched table

stationVars == <<station_id, operational_modes>>

vars == <<now, mqttVars, clientVars, cmdVars, cfgVars, decodeVars, restVars,
          modeVars, stationVars>>

\* ------------------------------------------------------- NorthboundClient

\* keyed: the instance has the attribute _app_key.
NoClient == [present |-> FALSE, keyed |-> FALSE, access_token |-> None,
             token_expiry |-> None]

\* NorthboundClient.from_app_key before its login: a fresh instance.
NewKeyClient == [present |-> TRUE, keyed |-> TRUE, access_token |-> None,
                 token_expiry |-> None]

\* Responses of POST openapi/auth/login/key: the code of the envelope and its
\* "data", which is a JSON object or (str) a string holding the JSON text of
\* one, with the keys accessToken and expiresIn.
KeyResponses ==
  {[code |-> 1, str |-> FALSE, accessToken |-> Absent, expiresIn |-> Absent]} \cup
  [code : {0},
   str : BOOLEAN,
   accessToken : Tokens \cup {Absent},
   expiresIn : ExpiresInValues \cup {Absent, NotANumber}]

\* json.loads of a string holding the text of an object: the object.
JsonLoads(d) == [d EXCEPT !.str = FALSE]

\* Mutant: the data is used as it came.
DecodeData_AsIs(d) == d

\* Lines 84-85: data = json.loads(data_str) if isinstance(data_str, str)
\* else data_str.
DecodeData(d) == IF d.str THEN JsonLoads(d) ELSE d

\* NorthboundClient.ensure_token: the condition under which it logs in again.
NbStale(nb, t) ==
  \/ ~Truthy(nb.access_token)
  \/ (Truthy(nb.token_expiry) /\ t >= nb.token_expiry)

\* NorthboundClient.login_with_key on response r at instant t: the client
\* after the call and the exception it raised ("none": it returned).
LoginWithKey(nb, r, t) ==
  LET data == DecodeData(r)
  IN  IF r.code /= 0
        THEN [nb |-> nb, exc |-> "SigenAuthError"]
      ELSE IF data.str
        \* data["accessToken"] on a str
        THEN [nb |-> nb, exc |-> "TypeError"]
      ELSE IF data.accessToken = Absent
        THEN [nb |-> nb, exc |-> "KeyError"]
      ELSE IF data.expiresIn = NotANumber
        THEN [nb |-> [nb EXCEPT !.access_token = data.accessToken],
              exc |-> "TypeError"]
      ELSE [nb |-> [nb EXCEPT !.access_token = data.accessToken,
                              !.token_expiry =
                                 t + (IF data.expiresIn = Absent
                                        THEN DEFAULT_EXPIRES_IN
                                        ELSE data.expiresIn)],
            exc |-> "none"]

\* NorthboundClient.login: the same handling as login_with_key, on the
\* response of POST openapi/auth/login/password.
Login(nb, r, t) == LoginWithKey(nb, r, t)

\* NorthboundClient.__init__
NewPasswordClient == [present |-> TRUE, keyed |-> FALSE, access_token |-> None,
                      token_expiry |-> None]

\* Mutant: ensure_token always logs in with the password.
ReloginRequest_AlwaysPassword(nb) == "login"

\* NorthboundClient.ensure_token, lines 97-100: the login it awaits when the
\* token is stale.
ReloginRequest(nb) == IF nb.keyed THEN "login_with_key" ELSE "login"

\* The login named ep of client nb handles response r at instant t.
HandleLogin(ep, nb, r, t) ==
  IF ep = "login_with_key" THEN LoginWithKey(nb, r, t) ELSE Login(nb, r, t)

\* ------------------------------------------------------- TelemetryData

\* A float is held as an exact fraction num / den with den > 0.
Rat(n, d) == [num |-> n, den |-> d]
Zero == Rat(0, 1)
RatEq(x, y) == x.num * y.den = y.num * x.den
RatNeg(x) == Rat(0 - x.num, x.den)
RatDiv(x, k) == Rat(x.num, x.den * k)

\* The keys of entry["value"] the decoder reads.
FieldKeys == {"pvPowerW", "storageChargeDischargePowerW", "storageSOC%",
              "gridActivePowerW", "loadActivePowerW"}

\* What a key of "value" can hold: nothing (the key is absent), null, a
\* value float() rejects (text such as "n/a", a list, an object), or a
\* number n, sent as a JSON number or as the string of one.
RawNumbers == (0 - MaxRaw)..MaxRaw
RawValues ==
  {[kind |-> "absent", n |-> 0], [kind |-> "null", n |-> 0],
   [kind |-> "text", n |-> 0]} \cup [kind : {"num"}, n : RawNumbers]

\* A raw entry: a JSON object whose key "value" is absent, is null, or is
\* an object with the keys of FieldKeys.
AllAbsent == [k \in FieldKeys |-> [kind |-> "absent", n |-> 0]]
RawEntries ==
  {[value |-> "absent", fields |-> AllAbsent],
   [value |-> "null", fields |-> AllAbsent]} \cup
  [value : {"dict"}, fields : [FieldKeys -> RawValues]]

NoEntry == [value |-> "absent", fields |-> AllAbsent]
NoData == [called |-> FALSE, exc |-> "none", pv_power_kw |-> Zero,
           battery_power_kw |-> Zero, soc_percent |-> Zero,
           grid_power_kw |-> Zero, load_power_kw |-> Zero]

\* _float(key) of from_mqtt_payload, lines 69-76: the default 0.0 when the
\* key is absent or null or when float(v) raises ValueError / TypeError.
Float(values, key) ==
  IF values[key].kind = "num" THEN Rat(values[key].n, 1) ELSE Zero

\* Mutant: the battery power keeps the sign Sigen sends.
FromMqttPayload_SignKept(e) ==
  IF e.value = "null"
    THEN [NoData EXCEPT !.called = TRUE, !.exc = "AttributeError"]
    ELSE LET values == IF e.value = "absent" THEN AllAbsent ELSE e.fields
         IN  [called |-> TRUE, exc |-> "none",
              pv_power_kw |-> RatDiv(Float(values, "pvPowerW"), 1000),
              battery_power_kw |->
                RatDiv(Float(values, "storageChargeDischargePowerW"), 1000),
              soc_percent |-> Float(values, "storageSOC%"),
              grid_power_kw |-> RatDiv(Float(values, "gridActivePowerW"), 1000),
              load_power_kw |-> RatDiv(Float(values, "loadActivePowerW"), 1000)]

\* TelemetryData.from_mqtt_payload(data), lines 59-92.  values is
\* data.get("value", {}): the default only when the key is absent, so a
\* null "value" makes values.get raise AttributeError (line 70).
FromMqttPayload(e) ==
  IF e.value = "null"
    THEN [NoData EXCEPT !.called = TRUE, !.exc = "AttributeError"]
    ELSE LET values == IF e.value = "absent" THEN AllAbsent ELSE e.fields
         IN  [called |-> TRUE, exc |-> "none",
              pv_power_kw |-> RatDiv(Float(values, "pvPowerW"), 1000),
              battery_power_kw |->
                RatDiv(RatNeg(Float(values, "storageChargeDischargePowerW")),
                       1000),
              soc_percent |-> Float(values, "storageSOC%"),
              grid_power_kw |-> RatDiv(Float(values, "gridActivePowerW"), 1000),
              load_power_kw |-> RatDiv(Float(values, "loadActivePowerW"), 1000)]

\* A caller decodes the entry.
CallFromMqttPayload ==
  /\ ~decoded.called
  /\ decoded' = FromMqttPayload(entry)
  /\ UNCHANGED <<now, mqttVars, clientVars, cmdVars, cfgVars, modeVars, stationVars, restVars, entry>>


\* ------------------------------------------------------------- SigenMQTT

\* The topics _subscribe subscribes to, in the order of its two loops.
NumTopics == 3 * NumSystems
TopicAt(i) == <<Cats[((i - 1) % 3) + 1], ((i - 1) \div 3) + 1>>
AllTopics == {<<c, s>> : c \in CatSet, s \in SystemIds}

\* An app key is held as the sequence of its segments, the pieces between
\* its "/" characters: "key" is <<"key">>, "key/change/key" has three.
PlainKey == <<"key">>
AppKeys == {PlainKey, <<"key", "change", "key">>, <<"key", "period", "key">>}

\* The topic string _subscribe builds for a category and a system id,
\* f"openapi/{c}/{self.app_key}/{system_id}", as its segments.
Topic(c, k, s) == <<"openapi", c>> \o k \o <<s>>

\* "/c/" in topic: some segment with a "/" on both sides is c.
HasSegment(topic, c) == \E i \in 2..(Len(topic) - 1) : topic[i] = c

\* No broker session is open (the broker keeps nothing of a closed one).
NoSession == [open |-> FALSE, password |-> None, pubs |-> <<>>, topics |-> {}]
NoBackoff == [kind |-> "none", from |-> "none", at |-> 0, until |-> 0]
\* cat: the handler that runs; payload and i: for the telemetry handler, the
\* entries of the payload and the position of the entry the callback runs
\* for; of: the category of the topic the message was published on.
NoMessage == [cat |-> "none", payload |-> <<>>, i |-> 0, of |-> "none"]

\* The entries of a /period/ payload, each given by what its "value" is; a
\* payload that is one object is a list of one entry (line 273).
EntryKinds == {"dict", "null"}
Payloads == SeqsUpTo(EntryKinds, MaxEntries)

\* from_mqtt_payload returns for an entry of this kind.
Decodable(k) == FromMqttPayload([value |-> k, fields |-> AllAbsent]).exc = "none"

\* _handle_telemetry, lines 274-284: the position of the first entry from i
\* on that the callback is awaited for, 0 when there is none; an entry
\* whose decoding raises is logged and passed over.
NextDecodable(p, i) ==
  LET S == {j \in i..Len(p) : Decodable(p[j])}
  IN  IF S = {} THEN 0 ELSE CHOOSE j \in S : \A k \in S : j <= k

\* Positions of listen() at which the task is suspended in an await.
MqttAwaits == {"connect", "publish", "subscribe", "recv", "handler"}
HttpAwaits == {"auth", "sub_auth"}
ListenAwaits == MqttAwaits \cup HttpAwaits

\* The environment injects faults only while a backoff can still elapse
\* before the clock's horizon.
CanFault == now + OTHER_BACKOFF_S <= MaxTime

\* SigenMQTT._ensure_token: TRUE when it has to go to the network.
NeedsLogin == ~nb_client.present \/ NbStale(nb_client, now)

\* Mutant: a pass logs in only when there is no client yet, and otherwise
\* connects with the stored token without looking at its expiry.
BeginPass_LoginOnce ==
  IF ~nb_client.present
    THEN /\ lpc' = "auth"
         /\ token' = None
    ELSE /\ lpc' = "connect"
         /\ token' = nb_client.access_token

\* Start of one pass of the while loop of listen(): token = _ensure_token(),
\* then the broker connection is opened with it.
BeginPass ==
  IF NeedsLogin
    THEN /\ lpc' = "auth"
         /\ token' = None
    ELSE /\ lpc' = "connect"
         /\ token' = nb_client.access_token

\* Mutant: the subscription is made on the first connection only.
BeginSubscribe_FirstOnly(nb) ==
  IF conn >= 1
    THEN /\ lpc' = "recv"
         /\ token' = None
  ELSE IF NbStale(nb, now)
    THEN /\ lpc' = "sub_auth"
         /\ token' = None
    ELSE /\ lpc' = "publish"
         /\ token' = nb.access_token

\* Mutant: _subscribe takes the stored token without a validity check.
BeginSubscribe_NoCheck(nb) ==
  /\ lpc' = "publish"
  /\ token' = nb.access_token

\* Start of _subscribe: token = _ensure_token(), then the first publish.
BeginSubscribe(nb) ==
  IF NbStale(nb, now)
    THEN /\ lpc' = "sub_auth"
         /\ token' = None
    ELSE /\ lpc' = "publish"
         /\ token' = nb.access_token

\* Mutant: the clause of the broker-level error does not sleep.
BackoffDelay_NoBrokerWait(kind) ==
  IF kind = "broker" THEN 0 ELSE OTHER_BACKOFF_S

\* Mutant: both clauses sleep 30 s.
BackoffDelay_Always30(kind) == BROKER_BACKOFF_S

\* The sleep of each except clause of listen().
BackoffDelay(kind) ==
  IF kind = "broker" THEN BROKER_BACKOFF_S ELSE OTHER_BACKOFF_S

\* Mutant: only the broker-level error is caught; any other exception
\* leaves listen() and reaches its caller.
Fault_OtherPropagates(kind) ==
  /\ connected' = FALSE
  /\ mqtt_client' = None
  /\ session' = NoSession
  /\ lpc' = IF kind = "broker" THEN "backoff" ELSE "raised"
  /\ backoff' = [kind |-> kind, from |-> lpc, at |-> now,
                  until |-> now + BROKER_BACKOFF_S]
  /\ token' = None
  /\ idx' = 1
  /\ cur' = NoMessage

\* except aiomqtt.MqttError / except Exception of listen(): lines 252-256
\* and 262-266.  Leaving the "async with" closes the broker session, and the
\* locals of the pass are gone.
Fault(kind) ==
  /\ connected' = FALSE
  /\ mqtt_client' = None
  /\ session' = NoSession
  /\ lpc' = "backoff"
  /\ backoff' = [kind |-> kind, from |-> lpc, at |-> now,
                  until |-> now + BackoffDelay(kind)]
  /\ token' = None
  /\ idx' = 1
  /\ cur' = NoMessage

\* listen(on_telemetry, on_system, on_alarm) is called.
Listen ==
  /\ lpc = "idle"
  /\ \E ht \in BOOLEAN, hs \in BOOLEAN, ha \in BOOLEAN :
       handlers' = [period |-> ht, change |-> hs, alarm |-> ha]
  /\ BeginPass
  /\ UNCHANGED <<cfgVars, modeVars, stationVars, decodeVars, restVars, clientVars, cmdVars, now, nb_client, mqtt_client, connected, listen_task, idx, conn,
                 session, backoff, cur, disc>>

\* listen() is called with the defaults of its parameters: no callback.
ListenNoCallbacks ==
  /\ lpc = "idle"
  /\ handlers' = [period |-> FALSE, change |-> FALSE, alarm |-> FALSE]
  /\ BeginPass
  /\ UNCHANGED <<cfgVars, modeVars, stationVars, decodeVars, restVars, clientVars, cmdVars, now, nb_client, mqtt_client, connected, listen_task, idx, conn,
                 session, backoff, cur, disc>>

\* The key login of _ensure_token at the start of a pass answers.  A first
\* login goes through authenticate / from_app_key, which keeps the new
\* client only when the login returned.
AuthResponse ==
  /\ lpc = "auth"
  /\ \E r \in KeyResponses :
       LET res == LoginWithKey(IF nb_client.present THEN nb_client
                                                     ELSE NewKeyClient, r, now)
       IN  IF res.exc = "none"
             THEN /\ nb_client' = res.nb
                  /\ lpc' = "connect"
                  /\ token' = res.nb.access_token
                  /\ UNCHANGED <<mqtt_client, connected, session, backoff, idx, cur>>
             ELSE /\ CanFault
                  /\ nb_client' = IF nb_client.present THEN res.nb ELSE nb_client
                  /\ Fault("other")
  /\ UNCHANGED <<cfgVars, modeVars, stationVars, decodeVars, restVars, clientVars, cmdVars, now, listen_task, handlers, conn, disc>>

\* aiomqtt.Client.__aenter__ succeeds: lines 229-234.
ConnectOk ==
  /\ lpc = "connect"
  /\ conn' = IF conn < MaxConn THEN conn + 1 ELSE conn
  /\ mqtt_client' = conn'
  /\ connected' = TRUE
  /\ session' = [open |-> TRUE, password |-> token, pubs |-> <<>>, topics |-> {}]
  /\ BeginSubscribe(nb_client)
  /\ UNCHANGED <<cfgVars, modeVars, stationVars, decodeVars, restVars, clientVars, cmdVars, now, nb_client, listen_task, handlers, idx, backoff, cur,
                 disc>>

\* The key login of _ensure_token at the start of _subscribe answers.
SubAuthResponse ==
  /\ lpc = "sub_auth"
  /\ \E r \in KeyResponses :
       LET res == LoginWithKey(nb_client, r, now)
       IN  /\ nb_client' = res.nb
           /\ IF res.exc = "none"
                THEN /\ lpc' = "publish"
                     /\ token' = res.nb.access_token
                     /\ UNCHANGED <<mqtt_client, connected, session, backoff,
                                    idx, cur>>
                ELSE /\ CanFault
                     /\ Fault("other")
  /\ UNCHANGED <<cfgVars, modeVars, stationVars, decodeVars, restVars, clientVars, cmdVars, now, listen_task, handlers, conn, disc>>

\* One of the three publishes of _subscribe completes: lines 182-195.
PublishOk ==
  /\ lpc = "publish"
  /\ session' = [session EXCEPT
                   !.pubs = Append(@, [topic |-> Cats[idx], accessToken |-> token,
                                       systemIdList |-> SystemIds])]
  /\ IF idx < 3
       THEN /\ idx' = idx + 1
            /\ UNCHANGED <<lpc, token>>
       ELSE /\ idx' = 1
            /\ lpc' = "subscribe"
            /\ token' = None
  /\ UNCHANGED <<cfgVars, modeVars, stationVars, decodeVars, restVars, clientVars, cmdVars, now, nb_client, mqtt_client, connected, listen_task, handlers,
                 conn, backoff, cur, disc>>

\* One client.subscribe(t) of the topic loops of _subscribe completes:
\* lines 198-205.
SubscribeOk ==
  /\ lpc = "subscribe"
  /\ session' = [session EXCEPT !.topics = @ \cup {TopicAt(idx)}]
  /\ IF idx < NumTopics
       THEN /\ idx' = idx + 1
            /\ UNCHANGED lpc
       ELSE /\ idx' = 1
            /\ lpc' = "recv"
  /\ UNCHANGED <<cfgVars, modeVars, stationVars, decodeVars, restVars, clientVars, cmdVars, now, nb_client, mqtt_client, connected, listen_task, handlers,
                 token, conn, backoff, cur, disc>>

\* The handler the if / elif chain of listen() picks for a JSON message
\* (lines 245-250): the first category whose "/c/" is found in the topic
\* and whose handler is registered, "none" when there is no such category.
Dispatch(topic, h) ==
  IF HasSegment(topic, "period") /\ h["period"] THEN "period"
  ELSE IF HasSegment(topic, "change") /\ h["change"] THEN "change"
  ELSE IF HasSegment(topic, "alarm") /\ h["alarm"] THEN "alarm"
  ELSE "none"

\* cur after a message whose payload is not JSON.
Skipped == [cat |-> "skipped", payload |-> <<>>, i |-> 0, of |-> "none"]

\* A JSON message on a topic of category c reaches the dispatch of lines
\* 245-250.  The topic is one of the subscribed ones; which system id it
\* names makes no difference to listen().
Delivered(c) ==
  LET s == CHOOSE s \in SystemIds : <<c, s>> \in session.topics
      h == Dispatch(Topic(c, app_key, s), handlers)
  IN  \/ /\ h = "period"
         /\ \E p \in Payloads :
              IF NextDecodable(p, 1) /= 0
                THEN /\ lpc' = "handler"
                     /\ cur' = [cat |-> "period", payload |-> p,
                                i |-> NextDecodable(p, 1), of |-> c]
                ELSE /\ cur' = NoMessage
                     /\ UNCHANGED lpc
      \/ /\ h \in {"change", "alarm"}
         /\ lpc' = "handler"
         /\ cur' = [cat |-> h, payload |-> <<>>, i |-> 0, of |-> c]
      \/ /\ h = "none"
         /\ cur' = NoMessage
         /\ UNCHANGED lpc

\* Mutant: the decoding error of a payload reaches the clauses of listen().
Message_DecodeErrorRaises ==
  /\ lpc = "recv"
  /\ \E c \in {tp[1] : tp \in session.topics} :
       \/ /\ CanFault
          /\ connected' = FALSE
          /\ mqtt_client' = None
          /\ session' = NoSession
          /\ lpc' = "backoff"
          /\ backoff' = [kind |-> "other", from |-> lpc, at |-> now,
                          until |-> now + BackoffDelay("other")]
          /\ token' = None
          /\ idx' = 1
          /\ cur' = Skipped
       \/ /\ Delivered(c)
          /\ UNCHANGED <<mqtt_client, connected, token, idx, session, backoff>>
  /\ UNCHANGED <<cfgVars, modeVars, stationVars, decodeVars, restVars, clientVars, cmdVars, now, nb_client, listen_task, handlers,
                 conn, disc>>

\* A message arrives on a subscribed topic: lines 236-250.  A payload that
\* json.loads rejects is logged and skipped (lines 239-243); cur keeps what
\* the loop did with the message.
Message ==
  /\ lpc = "recv"
  /\ \E c \in {tp[1] : tp \in session.topics} :
       \/ /\ cur' = Skipped
          /\ UNCHANGED lpc
       \/ Delivered(c)
  /\ UNCHANGED <<cfgVars, modeVars, stationVars, decodeVars, restVars, clientVars, cmdVars, now, nb_client, listen_task, handlers,
                 conn, disc, mqtt_client, connected, token, idx, session, backoff>>

\* After one entry of _handle_telemetry, or after on_system / on_alarm.
NextEntry ==
  IF cur.cat = "period" /\ NextDecodable(cur.payload, cur.i + 1) /= 0
    THEN /\ cur' = [cur EXCEPT !.i = NextDecodable(cur.payload, cur.i + 1)]
         /\ UNCHANGED lpc
    ELSE /\ lpc' = "recv"
         /\ cur' = NoMessage

\* The running handler returns.
HandlerReturn ==
  /\ lpc = "handler"
  /\ NextEntry
  /\ UNCHANGED <<cfgVars, modeVars, stationVars, decodeVars, restVars, clientVars, cmdVars, now, nb_client, mqtt_client, connected, listen_task, handlers,
                 token, idx, conn, session, backoff, disc>>

\* Mutant: an exception of the telemetry callback is not caught per entry.
HandlerRaise_Propagates ==
  /\ lpc = "handler"
  /\ \E kind \in {"broker", "other"} :
       /\ CanFault
       /\ Fault(kind)
  /\ UNCHANGED <<cfgVars, modeVars, stationVars, decodeVars, restVars, clientVars, cmdVars, now, nb_client, listen_task, handlers, conn, disc>>

\* The running handler raises: _handle_telemetry catches it per entry
\* (lines 283-284), on_system / on_alarm let it reach listen()'s clauses.
HandlerRaise ==
  /\ lpc = "handler"
  /\ \E kind \in {"broker", "other"} :
       IF cur.cat = "period"
         THEN /\ NextEntry
              /\ UNCHANGED <<mqtt_client, connected, session, backoff, token, idx>>
         ELSE /\ CanFault
              /\ Fault(kind)
  /\ UNCHANGED <<cfgVars, modeVars, stationVars, decodeVars, restVars, clientVars, cmdVars, now, nb_client, listen_task, handlers, conn, disc>>

\* The broker connection fails (aiomqtt.MqttError) while the task waits for
\* the connect, a publish, a subscribe or the next message.
BrokerError ==
  /\ lpc \in MqttAwaits \ {"handler"}
  /\ CanFault
  /\ Fault("broker")
  /\ UNCHANGED <<cfgVars, modeVars, stationVars, decodeVars, restVars, clientVars, cmdVars, now, nb_client, listen_task, handlers, conn, disc>>

\* Any other exception at an await of the loop (a transport error of the
\* login request, an OS error of the connection, ...).
OtherError ==
  /\ lpc \in ListenAwaits \ {"handler"}
  /\ CanFault
  /\ Fault("other")
  /\ UNCHANGED <<cfgVars, modeVars, stationVars, decodeVars, restVars, clientVars, cmdVars, now, nb_client, listen_task, handlers, conn, disc>>

\* asyncio.sleep of the backoff is over: the while loop starts its next pass.
Wake ==
  /\ lpc = "backoff"
  /\ now >= backoff.until
  /\ backoff' = NoBackoff
  /\ BeginPass
  /\ UNCHANGED <<cfgVars, modeVars, stationVars, decodeVars, restVars, clientVars, cmdVars, now, nb_client, mqtt_client, connected, listen_task, handlers,
                 idx, conn, session, cur, disc>>

\* Mutant: the cancellation is not caught, so nothing is cleared.
Cancelled_NoCleanup ==
  /\ lpc' = "cancelled"
  /\ token' = None
  /\ idx' = 1
  /\ cur' = NoMessage
  /\ backoff' = [kind |-> "cancelled", from |-> lpc, at |-> 0, until |-> 0]
  /\ UNCHANGED <<connected, mqtt_client, session>>

\* The effect on listen() of a cancellation delivered at its current await:
\* inside the try, except asyncio.CancelledError (lines 257-261); inside the
\* sleep of an except clause no clause of the try catches it.
Cancelled ==
  /\ lpc' = "cancelled"
  /\ token' = None
  /\ idx' = 1
  /\ cur' = NoMessage
  /\ backoff' = [kind |-> "cancelled", from |-> lpc, at |-> 0, until |-> 0]
  /\ IF lpc \in ListenAwaits
       THEN /\ connected' = FALSE
            /\ mqtt_client' = None
            /\ session' = NoSession
       ELSE UNCHANGED <<connected, mqtt_client, session>>

\* The caller cancels the task running listen().
Cancel ==
  /\ lpc \in ListenAwaits \cup {"backoff"}
  /\ Cancelled
  /\ UNCHANGED <<cfgVars, modeVars, stationVars, decodeVars, restVars, clientVars, cmdVars, now, nb_client, listen_task, handlers, conn, disc>>

\* Mutant: disconnect() clears the flag and leaves the handle.
Disconnect_FlagOnly ==
  /\ disc = "no"
  /\ disc' = IF lpc \in ListenAwaits \cup {"backoff"} THEN "running"
             ELSE IF lpc = "idle" THEN "idle" ELSE "ended"
  /\ connected' = FALSE
  /\ UNCHANGED <<mqtt_client, lpc, token, idx, cur, backoff, session>>
  /\ UNCHANGED <<cfgVars, modeVars, stationVars, decodeVars, restVars, clientVars, cmdVars, now, nb_client, listen_task, handlers, conn>>

\* disconnect(): lines 301-311.  _listen_task is assigned only in __init__
\* (line 141), so the cancelling branch needs a task handle nobody stores.
Disconnect ==
  /\ disc = "no"
  /\ disc' = IF lpc \in ListenAwaits \cup {"backoff"} THEN "running"
             ELSE IF lpc = "idle" THEN "idle" ELSE "ended"
  /\ IF listen_task /= None /\ lpc \in ListenAwaits \cup {"backoff"}
       THEN /\ lpc' = "cancelled"
            /\ token' = None
            /\ idx' = 1
            /\ cur' = NoMessage
            /\ backoff' = [kind |-> "cancelled", from |-> lpc, at |-> 0, until |-> 0]
            /\ session' = NoSession
       ELSE UNCHANGED <<lpc, token, idx, cur, backoff, session>>
  /\ connected' = FALSE
  /\ mqtt_client' = None
  /\ UNCHANGED <<cfgVars, modeVars, stationVars, decodeVars, restVars, clientVars, cmdVars, now, nb_client, listen_task, handlers, conn>>

\* ------------------------------------------- SigenMQTT: its other callers

\* No response handled.
NoResponse == [code |-> None, str |-> FALSE, accessToken |-> Absent,
               expiresIn |-> Absent]

\* The task is in no call of SigenMQTT; exc is what its last call raised and
\* resp the login response that call handled, if any.
IdleCmd == [pc |-> "idle", op |-> "none", ep |-> "none", first |-> FALSE,
            exc |-> "none", resp |-> NoResponse, n |-> 0, handle |-> None]

\* The lengths of the command lists the task passes.
BatchSizes == {MAX_BATCH, MAX_BATCH + 1}

\* Line 299: self._mqtt_client.publish(...) with the list as it was passed.
\* The attribute is read now; on None the call raises AttributeError.
BeginPublish(c) ==
  IF mqtt_client = None
    THEN [IdleCmd EXCEPT !.exc = "AttributeError"]
    ELSE [IdleCmd EXCEPT !.pc = "publish", !.op = "send", !.n = c.n,
                         !.handle = mqtt_client]

\* SigenMQTT._ensure_token for a call op of the task: authenticate() when no
\* client is stored, else NorthboundClient.ensure_token, which logs in again
\* when the token is stale and returns at once when it is not.
CmdEnsureToken(op) ==
  IF ~nb_client.present
    THEN [IdleCmd EXCEPT !.pc = "auth", !.op = op, !.first = TRUE,
                         !.ep = "login_with_key"]
  ELSE IF NbStale(nb_client, now)
    THEN [IdleCmd EXCEPT !.pc = "auth", !.op = op,
                         !.ep = ReloginRequest(nb_client)]
  ELSE [IdleCmd EXCEPT !.pc = "checked", !.op = op]

\* What follows the token check in the call: connect() returns,
\* send_battery_commands() publishes.
CmdAfterToken(c) ==
  IF c.op = "connect" THEN [IdleCmd EXCEPT !.exc = c.exc, !.resp = c.resp]
  ELSE IF c.exc /= "none" THEN [IdleCmd EXCEPT !.exc = c.exc]
  ELSE BeginPublish(c)

\* connect(): lines 168-175.
CallConnect ==
  /\ cmd.pc = "idle"
  /\ cmd' = LET c == CmdEnsureToken("connect")
            IN  IF c.pc = "checked" THEN CmdAfterToken(c) ELSE c
  /\ UNCHANGED <<cfgVars, modeVars, stationVars, decodeVars, restVars, now, mqttVars, clientVars>>

\* Mutant: authenticate() stores the new client before its login returns.
CmdAuthResponse_StoresFirst ==
  /\ cmd.pc = "auth"
  /\ \E r \in KeyResponses :
       LET res == HandleLogin(cmd.ep,
                              IF cmd.first THEN NewKeyClient ELSE nb_client,
                              r, now)
           c   == [cmd EXCEPT !.resp = r, !.exc = res.exc]
       IN  /\ nb_client' = res.nb
           /\ cmd' = CmdAfterToken(c)
  /\ UNCHANGED <<cfgVars, modeVars, stationVars, decodeVars, restVars, now, clientVars, mqtt_client, connected, listen_task, lpc,
                 handlers, token, idx, conn, session, backoff, cur, disc>>

\* The key login the task awaits answers: from_app_key keeps the new client
\* only when its login returned, ensure_token logs in on the stored client.
CmdAuthResponse ==
  /\ cmd.pc = "auth"
  /\ \E r \in KeyResponses :
       LET res == HandleLogin(cmd.ep,
                              IF cmd.first THEN NewKeyClient ELSE nb_client,
                              r, now)
           c   == [cmd EXCEPT !.resp = r, !.exc = res.exc]
       IN  /\ nb_client' = IF cmd.first /\ res.exc /= "none" THEN nb_client
                           ELSE res.nb
           /\ cmd' = CmdAfterToken(c)
  /\ UNCHANGED <<cfgVars, modeVars, stationVars, decodeVars, restVars, now, clientVars, mqtt_client, connected, listen_task, lpc,
                 handlers, token, idx, conn, session, backoff, cur, disc>>

\* send_battery_commands(commands) with a list of n commands: lines 292-299.
CallSend ==
  /\ cmd.pc = "idle"
  /\ \E n \in BatchSizes :
       cmd' = IF mqtt_client = None \/ ~connected
                THEN [IdleCmd EXCEPT !.exc = "RuntimeError"]
                ELSE LET c == [CmdEnsureToken("send") EXCEPT !.n = n]
                     IN  IF c.pc = "checked" THEN CmdAfterToken(c) ELSE c
  /\ UNCHANGED <<cfgVars, modeVars, stationVars, decodeVars, restVars, now, mqttVars, clientVars>>

\* The publish of the commands completes; it can only on the connection it
\* was started on.  (Connections beyond MaxConn are not told apart.)
CmdPublishOk ==
  /\ cmd.pc = "publish"
  /\ session.open
  /\ mqtt_client = cmd.handle
  /\ cmd' = IdleCmd
  /\ UNCHANGED <<cfgVars, modeVars, stationVars, decodeVars, restVars, now, mqttVars, clientVars>>

\* The publish of the commands fails (aiomqtt.MqttError).
CmdPublishError ==
  /\ cmd.pc = "publish"
  /\ cmd' = [IdleCmd EXCEPT !.exc = "MqttError"]
  /\ UNCHANGED <<cfgVars, modeVars, stationVars, decodeVars, restVars, now, mqttVars, clientVars>>

\* The login request of the task fails in the transport.
CmdTransportError ==
  /\ cmd.pc = "auth"
  /\ cmd' = [IdleCmd EXCEPT !.exc = "ClientError"]
  /\ UNCHANGED <<cfgVars, modeVars, stationVars, decodeVars, restVars, now, mqttVars, clientVars>>

\* ------------------------------------------------------------ TokenManager

\* TokenManager.__init__
NoTokens == [access_token |-> None, refresh_token |-> None, token_expiry |-> None]

\* Responses of POST auth/oauth/token: the HTTP status and the three fields
\* of the "data" object (all Absent: no usable "data").  The k-th grant of
\* the server is the pair of access token k and refresh token k; a response
\* carries one grant, with any of its fields possibly missing.
PasswordResponses ==
  [status : {401, 500}, access_token : {Absent}, refresh_token : {Absent},
   expires_in : {Absent}] \cup
  {[status |-> 200,
    access_token |-> IF a THEN k ELSE Absent,
    refresh_token |-> IF f THEN k ELSE Absent,
    expires_in |-> e] :
     k \in Tokens, a \in BOOLEAN, f \in BOOLEAN,
     e \in ExpiresInValues \cup {Absent, NotANumber}}

\* The response lacks one of the fields both calls require.
LacksField(r) ==
  r.access_token = Absent \/ r.refresh_token = Absent \/ r.expires_in = Absent

\* What the response handling of a login / refresh call saw.
ResponseClass(r) ==
  IF r.status /= 200 THEN "non200"
  ELSE IF LacksField(r) THEN "lacks"
  ELSE IF r.expires_in = NotANumber THEN "badnum"
  ELSE "ok"

\* Lines 85-87 / 118-120: the three assignments, in order; the third one
\* raises when expires_in is not a number.
Install(t_mgr, r, t) ==
  IF r.expires_in = NotANumber
    THEN [tm |-> [t_mgr EXCEPT !.access_token = r.access_token,
                               !.refresh_token = r.refresh_token],
          exc |-> "TypeError"]
    ELSE [tm |-> [access_token |-> r.access_token,
                  refresh_token |-> r.refresh_token,
                  token_expiry |-> t + r.expires_in],
          exc |-> "none"]

\* Mutant: the login stores the fields it finds before it checks that all
\* three are there.
GetAccessToken_StoresFirst(t_mgr, r, t) ==
  IF r.status /= 200 THEN [tm |-> t_mgr, exc |-> "SigenAuthError"]
  ELSE IF LacksField(r)
    THEN [tm |-> [t_mgr EXCEPT !.access_token =
                                  IF r.access_token = Absent THEN @
                                  ELSE r.access_token],
          exc |-> "SigenAuthError"]
  ELSE Install(t_mgr, r, t)

\* TokenManager.get_access_token on response r at instant t.
GetAccessToken(t_mgr, r, t) ==
  IF r.status = 401 THEN [tm |-> t_mgr, exc |-> "SigenAuthError"]
  ELSE IF r.status /= 200 THEN [tm |-> t_mgr, exc |-> "SigenAuthError"]
  ELSE IF LacksField(r) THEN [tm |-> t_mgr, exc |-> "SigenAuthError"]
  ELSE Install(t_mgr, r, t)

\* Mutant: a failed refresh erases the token state before it raises.
RefreshAccessToken_Erases(t_mgr, r, t) ==
  IF r.status /= 200 THEN [tm |-> NoTokens, exc |-> "SigenTokenExpiredError"]
  ELSE IF LacksField(r) THEN [tm |-> NoTokens, exc |-> "SigenTokenExpiredError"]
  ELSE Install(t_mgr, r, t)

\* TokenManager.refresh_access_token on response r at instant t.
RefreshAccessToken(t_mgr, r, t) ==
  IF r.status /= 200 THEN [tm |-> t_mgr, exc |-> "SigenTokenExpiredError"]
  ELSE IF LacksField(r) THEN [tm |-> t_mgr, exc |-> "SigenTokenExpiredError"]
  ELSE Install(t_mgr, r, t)

\* Mutant: the token counts as stale only strictly after its expiry.
TmStale_Strict(t_mgr, t) ==
  t_mgr.token_expiry /= None /\ t > t_mgr.token_expiry

\* TokenManager.ensure_valid_token: the condition under which it refreshes.
TmStale(t_mgr, t) ==
  t_mgr.token_expiry /= None /\ t >= t_mgr.token_expiry

\* exceptions.py: SigenTokenExpiredError is a SigenAuthError.
IsAuthError(e) == e \in {"SigenAuthError", "SigenTokenExpiredError"}

\* ------------------------------------------------------------------ Sigen

ClientTasks == {"a", "b"}
\* The caller of the behaviours with a single task.
Solo == "a"

\* The steps of an operation of the client up to its request: "ensure" is
\* one call of TokenManager.ensure_valid_token, the last step is the
\* request, named by its endpoint.
OpSteps ==
  [get_energy_flow |-> <<"ensure", "ensure", "energyflow">>,
   get_smart_loads |-> <<"ensure", "ensure", "list">>]

StepOps == DOMAIN OpSteps

LoadPaths == 1..NumPaths
\* Entry 0 of a smart-load list is a load without the "path" key.
Loads == 0..NumPaths
\* smartLoadId values of the details response.
Ids == {1}

\* The "data" of the smart-load list endpoint.
LoadLists == SeqsUpTo(Loads, MaxLoads)

\* Responses of an authenticated REST request: the status and what the body
\* is (a JSON envelope with "data" and code 0, one without, or no JSON).
RestResponses == [status : {200, 500}, body : {"data", "nodata", "nonjson"}]

\* The request a task awaits: its endpoint, and whether the task made a
\* validity check since its previous network call.
NoCall == [ep |-> "none", checked |-> FALSE]

\* A task that is in no call of the client; exc is what its last call raised
\* and seen the class of the token response that call ended on, if any;
\* failed: an except clause of the running batch has caught an error, or a
\* request of it has come back without its data; stage: the step of
\* async_initialize the task is in ("none": it is not in async_initialize).
IdleTask == [pc |-> "idle", rest |-> <<>>, call |-> NoCall, loads |-> <<>>,
             exc |-> "none", seen |-> "none", failed |-> FALSE,
             stage |-> "none"]

\* The call of the client made by task record tk ends, raising exc
\* ("none": it returns).
Return(tk, exc) == [IdleTask EXCEPT !.exc = exc, !.seen = tk.seen]

\* session.get / put / patch with headers=token_mgr.headers: the request
\* goes on the wire with the token the TokenManager holds at this instant.
SendReq(tk, ep, checked) ==
  [tk EXCEPT !.pc = "request", !.seen = "none",
             !.call = [ep |-> ep, checked |-> checked]]

\* Run the steps of an operation up to the next await that suspends: a
\* check that finds the token valid returns at once, one that finds it stale
\* awaits the refresh request, the last step awaits the request itself.
RECURSIVE Go(_, _, _, _, _)
Go(tk, steps, t_mgr, t, fresh) ==
  IF steps = <<>> THEN Return(tk, "none")
  ELSE IF Head(steps) = "ensure"
    THEN IF TmStale(t_mgr, t)
           THEN [tk EXCEPT !.pc = "refresh",
                           !.rest = Tail(steps),
                           !.call = [ep |-> "refresh", checked |-> TRUE]]
           ELSE Go(tk, Tail(steps), t_mgr, t, TRUE)
  ELSE SendReq([tk EXCEPT !.rest = <<>>], Head(steps), fresh)

\* id_map.get(load_path), smart_loads.py:99: None when the key is absent.
Get(id_map, p) == IF id_map[p] = Absent THEN None ELSE id_map[p]

\* Mutant: the id of the details is cached as it came, null included.
CacheId_StoresNull(id_map, p, got) == [id_map EXCEPT ![p] = got]

\* smart_loads.py:104-106 and client.py:175-177: the smartLoadId of the
\* details is cached unless it is None.
CacheId(id_map, p, got) ==
  IF got /= None THEN [id_map EXCEPT ![p] = got] ELSE id_map

\* The loop of get_smart_loads_with_consumption at the head of loads:
\* loads without "path" are skipped; a path the cache does not hold asks for
\* its details, a cached one directly for its consumption.
RECURSIVE NextLoad(_, _, _)
NextLoad(tk, loads, id_map) ==
  IF loads = <<>> THEN Return(tk, "none")
  ELSE IF Head(loads) = 0 THEN NextLoad(tk, Tail(loads), id_map)
  ELSE SendReq([tk EXCEPT !.loads = loads],
               IF Get(id_map, Head(loads)) = None THEN "details"
               ELSE "consumption",
               FALSE)

\* The loop of Sigen._fetch_smart_load_ids at the head of loads: loads
\* without "path" are skipped, every other one asks for its details.
RECURSIVE NextId(_, _)
NextId(tk, loads) ==
  IF loads = <<>> THEN Return(tk, "none")
  ELSE IF Head(loads) = 0 THEN NextId(tk, Tail(loads))
  ELSE SendReq([tk EXCEPT !.loads = loads], "ids_details", FALSE)

\* The requests made once per load of a batch.
PerLoad == {"details", "consumption", "ids_details"}

\* The steps of async_initialize, lines 62-65, in the order of its awaits;
\* _create_dynamic_methods (lines 187-195) is get_operational_modes
\* followed by get_smart_loads.
Stages == <<"login", "station", "ids", "modes", "loads">>

\* The calls a step begins with: fetch_station_info, _fetch_smart_load_ids,
\* fetch_operational_modes and get_smart_loads, each with its checks.
StageSteps ==
  [station |-> <<"ensure", "station">>,
   ids |-> <<"ensure", "ensure", "ids_list">>,
   modes |-> <<"ensure", "modes">>,
   loads |-> OpSteps["get_smart_loads"]]

\* The step of async_initialize named stage begins in a task that keeps
\* the fields seen and failed of tk.
StartStage(tk, stage, t_mgr, t) ==
  Go([IdleTask EXCEPT !.stage = stage, !.seen = tk.seen, !.failed = tk.failed],
     StageSteps[stage], t_mgr, t, FALSE)

\* Mutant: async_initialize goes on to the station info whatever the
\* login raised (exc keeps what it raised).
Continue_LoginErrorIgnored(stage, tk, t_mgr, t, modes) ==
  IF stage = "none" \/ tk.pc /= "idle" THEN tk
  ELSE IF stage = "login"
    THEN [StartStage(tk, "station", t_mgr, t) EXCEPT !.exc = tk.exc]
  ELSE IF tk.exc /= "none" THEN tk
  ELSE IF stage = "station" THEN StartStage(tk, "ids", t_mgr, t)
  ELSE IF stage = "ids"
    THEN StartStage(tk, IF modes = None THEN "modes" ELSE "loads", t_mgr, t)
  ELSE IF stage = "modes" THEN StartStage(tk, "loads", t_mgr, t)
  ELSE tk

\* What a task in the step named stage of async_initialize does when the
\* await of that step is over and left it as tk: an exception ends
\* async_initialize, a return begins the next step.  get_operational_modes
\* (lines 91-93) fetches only while operational_modes is falsy.
Continue(stage, tk, t_mgr, t, modes) ==
  IF stage = "none" \/ tk.pc /= "idle" THEN tk
  ELSE IF tk.exc /= "none" THEN tk
  ELSE IF stage = "login" THEN StartStage(tk, "station", t_mgr, t)
  ELSE IF stage = "station" THEN StartStage(tk, "ids", t_mgr, t)
  ELSE IF stage = "ids"
    THEN StartStage(tk, IF modes = None THEN "modes" ELSE "loads", t_mgr, t)
  ELSE IF stage = "modes" THEN StartStage(tk, "loads", t_mgr, t)
  ELSE tk

\* async_initialize() is called: get_access_token awaits its request.
CallAsyncInitialize(t) ==
  /\ tasks[t].pc = "idle"
  /\ tasks' = [tasks EXCEPT ![t] =
                 [IdleTask EXCEPT !.pc = "login", !.stage = "login"]]
  /\ UNCHANGED <<cfgVars, modeVars, stationVars, decodeVars, restVars, now, mqttVars, cmdVars, tm, sigen_nb, smart_load_id_map>>

\* TokenManager.get_access_token is called (as async_initialize does) and
\* awaits its request.
CallLogin(t) ==
  /\ tasks[t].pc = "idle"
  /\ tasks' = [tasks EXCEPT ![t] = [IdleTask EXCEPT !.pc = "login"]]
  /\ UNCHANGED <<cfgVars, modeVars, stationVars, decodeVars, restVars, now, mqttVars, cmdVars, tm, sigen_nb, smart_load_id_map>>

\* The password-grant request answers.
LoginResponse(t) ==
  /\ tasks[t].pc = "login"
  /\ \E r \in PasswordResponses :
       LET res == GetAccessToken(tm, r, now)
       IN  /\ tm' = res.tm
           /\ tasks' = [tasks EXCEPT ![t] =
                Continue(tasks[t].stage,
                         Return([tasks[t] EXCEPT !.seen = ResponseClass(r)],
                                res.exc),
                         res.tm, now, operational_modes)]
  /\ UNCHANGED <<cfgVars, modeVars, stationVars, decodeVars, restVars, now, mqttVars, cmdVars, sigen_nb, smart_load_id_map>>

\* get_energy_flow() / get_smart_loads() is called.
CallOp(t) ==
  /\ tasks[t].pc = "idle"
  /\ \E op \in StepOps :
       tasks' = [tasks EXCEPT ![t] =
                   Go(IdleTask, OpSteps[op], tm, now, FALSE)]
  /\ UNCHANGED <<cfgVars, modeVars, stationVars, decodeVars, restVars, now, mqttVars, cmdVars, tm, sigen_nb, smart_load_id_map>>

\* get_energy_flow() is called.
CallGetEnergyFlow(t) ==
  /\ tasks[t].pc = "idle"
  /\ tasks' = [tasks EXCEPT ![t] =
                 Go(IdleTask, OpSteps["get_energy_flow"], tm, now, FALSE)]
  /\ UNCHANGED <<cfgVars, modeVars, stationVars, decodeVars, restVars, now, mqttVars, cmdVars, tm, sigen_nb, smart_load_id_map>>

\* Sigen._fetch_smart_load_ids() is called (as async_initialize does):
\* its own validity check, then fetch_smart_load_list.
CallFetchSmartLoadIds(t) ==
  /\ tasks[t].pc = "idle"
  /\ tasks' = [tasks EXCEPT ![t] =
                 Go(IdleTask, <<"ensure", "ensure", "ids_list">>, tm, now, FALSE)]
  /\ UNCHANGED <<cfgVars, modeVars, stationVars, decodeVars, restVars, now, mqttVars, cmdVars, tm, sigen_nb, smart_load_id_map>>

\* The refresh request of ensure_valid_token answers.
RefreshResponse(t) ==
  /\ tasks[t].pc = "refresh"
  /\ \E r \in PasswordResponses :
       LET res == RefreshAccessToken(tm, r, now)
           tk  == [tasks[t] EXCEPT !.seen = ResponseClass(r), !.call = NoCall]
       IN  /\ tm' = res.tm
           /\ tasks' = [tasks EXCEPT ![t] =
                Continue(tasks[t].stage,
                         IF res.exc = "none"
                           THEN Go(tk, tk.rest, res.tm, now, TRUE)
                           ELSE Return(tk, res.exc),
                         res.tm, now, operational_modes)]
  /\ UNCHANGED <<cfgVars, modeVars, stationVars, decodeVars, restVars, now, mqttVars, cmdVars, sigen_nb, smart_load_id_map>>

\* energy.get_energy_flow: (await response.json())["data"], whatever the
\* status.
EnergyFlowResult(r) ==
  IF r.body = "data" THEN "none"
  ELSE IF r.body = "nodata" THEN "KeyError" ELSE "ContentTypeError"

\* The response has status 200 and a JSON envelope with code 0 and "data".
Good(r) == r.status = 200 /\ r.body = "data"

\* The stationId of the station info and the table of operational modes,
\* as the "data" of their endpoints.
StationIds == {1}
ModeTables == {1}

\* An authenticated request answers.
RequestResponse(t) ==
  /\ tasks[t].pc = "request"
  /\ \E r \in RestResponses :
     \E loads \in IF tasks[t].call.ep \in {"list", "ids_list"} /\ Good(r)
                    THEN LoadLists ELSE {<<>>} :
     \E id \in IF tasks[t].call.ep \in {"details", "ids_details"} /\ Good(r)
                 THEN Ids \cup {None} ELSE {None} :
       LET ep == tasks[t].call.ep
           good == Good(r)
           tk == [tasks[t] EXCEPT !.call = NoCall,
                                  !.failed = @ \/ (ep \in PerLoad /\ ~good)]
           \* the task after the await, inside async_initialize or not
           Then(x, modes) ==
             [tasks EXCEPT ![t] = Continue(tasks[t].stage, x, tm, now, modes)]
       IN  CASE ep = "energyflow" ->
                  /\ tasks' = Then(Return(tk, EnergyFlowResult(r)), operational_modes)
                  /\ UNCHANGED <<smart_load_id_map, stationVars>>
             [] ep = "station" ->
                  \* station.py:21 and client.py:71-72: data["stationId"],
                  \* whatever the status
                  /\ tasks' = Then(Return(tk, EnergyFlowResult(r)), operational_modes)
                  /\ \E sid \in StationIds :
                       station_id' = IF r.body = "data" THEN sid ELSE station_id
                  /\ UNCHANGED <<smart_load_id_map, operational_modes>>
             [] ep = "modes" ->
                  \* modes.py:21 and client.py:97-99: the "data", whatever
                  \* the status
                  /\ \E m \in ModeTables :
                       operational_modes' =
                         IF r.body = "data" THEN m ELSE operational_modes
                  /\ tasks' = Then(Return(tk, EnergyFlowResult(r)), operational_modes')
                  /\ UNCHANGED <<smart_load_id_map, station_id>>
             [] ep = "list" ->
                  \* fetch_smart_load_list: [] unless status 200, code 0, data
                  /\ tasks' = Then(
                       IF r.status = 200 /\ r.body = "nonjson"
                         THEN Return(tk, "ContentTypeError")
                         ELSE NextLoad(tk, IF good THEN loads ELSE <<>>,
                                       smart_load_id_map), operational_modes)
                  /\ UNCHANGED <<smart_load_id_map, stationVars>>
             [] ep = "details" ->
                  \* fetch_smart_load_details, then lines 103-116
                  LET p == Head(tk.loads)
                      got == IF good THEN id ELSE None
                  IN  /\ smart_load_id_map' = CacheId(smart_load_id_map, p, got)
                      /\ tasks' = Then(IF got /= None
                                         THEN SendReq(tk, "consumption", FALSE)
                                         ELSE NextLoad(tk, Tail(tk.loads),
                                                       smart_load_id_map'),
                                       operational_modes)
                      /\ UNCHANGED stationVars
             [] ep = "consumption" ->
                  \* fetch_smart_load_consumption, then lines 119-135
                  /\ tasks' = Then(NextLoad(tk, Tail(tk.loads), smart_load_id_map),
                                   operational_modes)
                  /\ UNCHANGED <<smart_load_id_map, stationVars>>
             [] ep = "ids_list" ->
                  \* client.py:163: fetch_smart_load_list, then the loop
                  /\ tasks' = Then(
                       IF r.status = 200 /\ r.body = "nonjson"
                         THEN Return(tk, "ContentTypeError")
                         ELSE NextId(tk, IF good THEN loads ELSE <<>>),
                       operational_modes)
                  /\ UNCHANGED <<smart_load_id_map, stationVars>>
             [] ep = "ids_details" ->
                  \* client.py:170-183: fetch_smart_load_details in the try
                  LET p == Head(tk.loads)
                      got == IF good THEN id ELSE None
                  IN  /\ smart_load_id_map' = CacheId(smart_load_id_map, p, got)
                      /\ tasks' = Then(NextId(tk, Tail(tk.loads)), operational_modes)
                      /\ UNCHANGED stationVars
  /\ UNCHANGED <<cfgVars, modeVars, decodeVars, restVars, now, mqttVars, cmdVars, tm, sigen_nb>>

\* init_northbound(): a new NorthboundClient is stored, then its login is
\* awaited.
CallInitNorthbound(t) ==
  /\ tasks[t].pc = "idle"
  /\ sigen_nb' = NewPasswordClient
  /\ tasks' = [tasks EXCEPT ![t] =
                 [IdleTask EXCEPT !.pc = "nb_login",
                                  !.call = [ep |-> "login", checked |-> FALSE]]]
  /\ UNCHANGED <<cfgVars, modeVars, stationVars, decodeVars, restVars, now, mqttVars, cmdVars, tm, smart_load_id_map>>

\* NorthboundClient.query_mode sends its request with the token that
\* ensure_token returned.
SendNbReq(tk) ==
  [tk EXCEPT !.pc = "nb_request", !.rest = <<>>, !.seen = "none",
             !.call = [ep |-> "nb_settings", checked |-> TRUE]]

\* nb_query_mode(): RuntimeError without a client; else query_mode, which
\* starts with ensure_token.
CallNbQueryMode(t) ==
  /\ tasks[t].pc = "idle"
  /\ tasks' = [tasks EXCEPT ![t] =
       IF ~sigen_nb.present THEN Return(IdleTask, "RuntimeError")
       ELSE IF NbStale(sigen_nb, now)
         THEN [IdleTask EXCEPT !.pc = "nb_login",
                               !.rest = <<"nb_settings">>,
                               !.call = [ep |-> ReloginRequest(sigen_nb),
                                         checked |-> TRUE]]
         ELSE SendNbReq(IdleTask)]
  /\ UNCHANGED <<cfgVars, modeVars, stationVars, decodeVars, restVars, now, mqttVars, cmdVars, tm, sigen_nb, smart_load_id_map>>

\* What the handling of a northbound login response saw.
NbResponseClass(r) ==
  IF r.code /= 0 THEN "rejected"
  ELSE IF r.accessToken = Absent THEN "lacks"
  ELSE IF r.expiresIn = NotANumber THEN "badnum"
  ELSE "ok"

\* The northbound password login answers.
NbLoginResponse(t) ==
  /\ tasks[t].pc = "nb_login"
  /\ \E r \in KeyResponses :
       LET res == HandleLogin(tasks[t].call.ep, sigen_nb, r, now)
           tk  == [tasks[t] EXCEPT !.call = NoCall, !.seen = NbResponseClass(r)]
       IN  /\ sigen_nb' = res.nb
           /\ tasks' = [tasks EXCEPT ![t] =
                          IF res.exc /= "none" THEN Return(tk, res.exc)
                          ELSE IF tk.rest = <<>> THEN Return(tk, "none")
                          ELSE SendNbReq(tk)]
  /\ UNCHANGED <<cfgVars, modeVars, stationVars, decodeVars, restVars, now, mqttVars, cmdVars, tm, smart_load_id_map>>

\* The northbound settings request answers: SigenAPIError unless code 0.
NbRequestResponse(t) ==
  /\ tasks[t].pc = "nb_request"
  /\ \E code \in {0, 1} :
       tasks' = [tasks EXCEPT ![t] =
                   Return(tasks[t], IF code = 0 THEN "none" ELSE "SigenAPIError")]
  /\ UNCHANGED <<cfgVars, modeVars, stationVars, decodeVars, restVars, now, mqttVars, cmdVars, tm, sigen_nb, smart_load_id_map>>

\* Mutant: an error of a per-load request ends the call like any other.
TransportError_Aborts(t) ==
  /\ tasks[t].pc /= "idle"
  /\ LET tk == [tasks[t] EXCEPT !.call = NoCall, !.seen = "none",
                                !.failed = @ \/ tasks[t].call.ep \in PerLoad]
     IN  tasks' = [tasks EXCEPT ![t] =
           Continue(tasks[t].stage, Return(tk, "ClientError"),
                    tm, now, operational_modes)]
  /\ UNCHANGED <<cfgVars, modeVars, stationVars, decodeVars, restVars, now, mqttVars, cmdVars, tm, sigen_nb, smart_load_id_map>>

\* A request of the client fails in the transport (aiohttp.ClientError).
\* Inside the per-load try blocks of get_smart_loads_with_consumption and
\* of _fetch_smart_load_ids the error is caught and the loop goes on;
\* anywhere else it ends the call.
TransportError(t) ==
  /\ tasks[t].pc /= "idle"
  /\ LET tk == [tasks[t] EXCEPT !.call = NoCall, !.seen = "none",
                                !.failed = @ \/ tasks[t].call.ep \in PerLoad]
     IN  tasks' = [tasks EXCEPT ![t] =
           Continue(tasks[t].stage,
                    IF tasks[t].call.ep \in {"details", "consumption"}
                      THEN NextLoad(tk, Tail(tk.loads), smart_load_id_map)
                    ELSE IF tasks[t].call.ep = "ids_details"
                      THEN NextId(tk, Tail(tk.loads))
                      ELSE Return(tk, "ClientError"),
                    tm, now, operational_modes)]
  /\ UNCHANGED <<cfgVars, modeVars, stationVars, decodeVars, restVars, now, mqttVars, cmdVars, tm, sigen_nb, smart_load_id_map>>

\* Time passes.
Tick ==
  /\ now < MaxTime
  /\ now' = now + TickS
  /\ UNCHANGED <<cfgVars, modeVars, stationVars, decodeVars, restVars, mqttVars, clientVars, cmdVars>>

\* The state after the constructors, but for the configuration and the
\* decoder's input.
ObjectsInit ==
  /\ now = StartTime
  /\ nb_client = NoClient
  /\ mqtt_client = None
  /\ connected = FALSE
  /\ listen_task = None
  /\ lpc = "idle"
  /\ handlers = [period |-> FALSE, change |-> FALSE, alarm |-> FALSE]
  /\ token = None
  /\ idx = 1
  /\ conn = 0
  /\ session = NoSession
  /\ backoff = NoBackoff
  /\ cur = NoMessage
  /\ disc = "no"
  /\ tm = NoTokens
  /\ sigen_nb = NoClient
  /\ smart_load_id_map = [p \in LoadPaths |-> Absent]
  /\ tasks = [t \in ClientTasks |-> IdleTask]
  /\ cmd = IdleCmd
  /\ station_id = None
  /\ operational_modes = None

\* ----------------------------------------------------------- REST helpers

\* The helpers that send one authenticated request: station.py, energy.py,
\* modes.py and smart_loads.py.
RestHelpers ==
  {"fetch_station_info", "get_energy_flow", "fetch_operational_modes",
   "get_current_operational_mode", "set_operational_mode",
   "fetch_smart_load_list", "fetch_smart_load_details",
   "fetch_smart_load_consumption", "set_smart_load_state"}

\* Statuses and bodies a request can be answered with.
HttpStatuses == {200, 400, 401, 404, 500}
HttpResponses == [status : HttpStatuses, body : {"data", "nodata", "nonjson"}]

NoRest == [pc |-> "idle", helper |-> "none", status |-> 0, exc |-> "none",
           value |-> "none"]

\* How a helper ends on response r: the exception it raises ("none": it
\* returns) and what it returns: the "data" of the envelope, the whole
\* body, or the empty value of its return type ([], None, {}).
\*   - station.py:20-33, energy.py:15-17, modes.py:17-20 and 30-49 index
\*     (await response.json())["data"] without looking at the status;
\*   - modes.py:67-69 and smart_loads.py:156-158 return response.json();
\*   - smart_loads.py:22-29, 43-49, 67-73 return the empty value unless the
\*     status is 200 and the envelope has code 0 and "data".
RestOutcome(h, r) ==
  IF h \in {"fetch_station_info", "get_energy_flow", "fetch_operational_modes",
            "get_current_operational_mode"}
    THEN [exc |-> EnergyFlowResult(r),
          value |-> IF r.body = "data" THEN "data" ELSE "none"]
  ELSE IF h \in {"set_operational_mode", "set_smart_load_state"}
    THEN IF r.body = "nonjson"
           THEN [exc |-> "ContentTypeError", value |-> "none"]
           ELSE [exc |-> "none", value |-> "body"]
  ELSE IF r.status /= 200 THEN [exc |-> "none", value |-> "empty"]
  ELSE IF r.body = "nonjson" THEN [exc |-> "ContentTypeError", value |-> "none"]
  ELSE IF r.body = "nodata" THEN [exc |-> "none", value |-> "empty"]
  ELSE [exc |-> "none", value |-> "data"]

\* A helper is called with a TokenManager whose token needs no refresh, and
\* awaits its request.
CallHelper ==
  /\ rest.pc = "idle"
  /\ ~TmStale(tm, now)
  /\ \E h \in RestHelpers :
       rest' = [NoRest EXCEPT !.pc = "request", !.helper = h]
  /\ UNCHANGED <<now, mqttVars, clientVars, cmdVars, cfgVars, modeVars, stationVars, decodeVars>>

\* The request of the helper answers.
HelperResponse ==
  /\ rest.pc = "request"
  /\ \E r \in HttpResponses :
       rest' = [pc |-> "done", helper |-> rest.helper, status |-> r.status,
                exc |-> RestOutcome(rest.helper, r).exc,
                value |-> RestOutcome(rest.helper, r).value]
  /\ UNCHANGED <<now, mqttVars, clientVars, cmdVars, cfgVars, modeVars, stationVars, decodeVars>>

\* ------------------------------------------------------ operational modes

\* str(x) of a value of "currentMode": the decimal text of an int, "None"
\* of a null.
Str(x) == IF x = None THEN "None" ELSE ToString(x)

\* What "currentMode" and "currentProfileId" of the response hold.
ModeValues == {None, 0, 1, 9}
ProfileIds == {None, 1, 2}

\* The entries of cached_modes["defaultWorkingModes"] (the value is text)
\* and of cached_modes["energyProfileItems"].
DefaultModes == [value : {"0", "1", "9"}, label : {"Eco", "Backup"}]
ProfileItems == [profileId : {1, 2}, name : {"Night", "Day"}]

\* A key of cached_modes: absent, or a list.
NoList == [present |-> FALSE, items |-> <<>>]
ListsOf(S) ==
  {NoList} \cup [present : {TRUE}, items : SeqsUpTo(S, MaxModes)]

NoModeCall ==
  [called |-> FALSE, defaultWorkingModes |-> NoList,
   energyProfileItems |-> NoList, currentMode |-> None,
   currentProfileId |-> None, exc |-> "none", result |-> "none"]

\* The "for mode in items: if <match>: return <text>" of lines 41-43 and
\* 46-48: the text of the first entry that matches, "none" when the loop
\* ends without a return.
RECURSIVE FirstLabel(_, _)
FirstLabel(items, v) ==
  IF items = <<>> THEN "none"
  ELSE IF Head(items).value = v THEN Head(items).label
  ELSE FirstLabel(Tail(items), v)

RECURSIVE FirstName(_, _)
FirstName(items, id) ==
  IF items = <<>> THEN "none"
  ELSE IF Head(items).profileId = id THEN Head(items).name
  ELSE FirstName(Tail(items), id)

\* Mutant: a mode without a default label falls through to the profiles.
ResolveMode_FallsThrough(c) ==
  LET byValue == IF c.currentMode /= 9 /\ c.defaultWorkingModes.present
                   THEN FirstLabel(c.defaultWorkingModes.items,
                                   Str(c.currentMode))
                   ELSE "none"
  IN  IF c.currentMode /= 9 /\ ~c.defaultWorkingModes.present
        THEN [exc |-> "KeyError", result |-> "none"]
      ELSE IF byValue /= "none" THEN [exc |-> "none", result |-> byValue]
      ELSE IF ~c.energyProfileItems.present
        THEN [exc |-> "KeyError", result |-> "none"]
      ELSE LET found == FirstName(c.energyProfileItems.items,
                                  c.currentProfileId)
           IN  [exc |-> "none",
                result |-> IF found = "none" THEN "Unknown mode" ELSE found]

\* get_current_operational_mode from the response data on, lines 36-50.
\* Only the list of the branch taken is indexed, so only an absent key of
\* that branch raises KeyError.
ResolveMode(c) ==
  IF c.currentMode /= 9
    THEN IF ~c.defaultWorkingModes.present
           THEN [exc |-> "KeyError", result |-> "none"]
           ELSE LET found == FirstLabel(c.defaultWorkingModes.items,
                                        Str(c.currentMode))
                IN  [exc |-> "none",
                     result |-> IF found = "none" THEN "Unknown mode"
                                ELSE found]
    ELSE IF ~c.energyProfileItems.present
           THEN [exc |-> "KeyError", result |-> "none"]
           ELSE LET found == FirstName(c.energyProfileItems.items,
                                       c.currentProfileId)
                IN  [exc |-> "none",
                     result |-> IF found = "none" THEN "Unknown mode"
                                ELSE found]

\* The request of get_current_operational_mode answers with a "data" that
\* holds both keys, and the label is resolved.
CallGetCurrentOperationalMode ==
  /\ ~mode_call.called
  /\ mode_call' = [mode_call EXCEPT !.called = TRUE,
                                    !.exc = ResolveMode(mode_call).exc,
                                    !.result = ResolveMode(mode_call).result]
  /\ UNCHANGED <<now, mqttVars, clientVars, cmdVars, cfgVars, decodeVars, restVars, stationVars>>

Init ==
  /\ ObjectsInit
  /\ app_key = PlainKey
  /\ entry = NoEntry
  /\ decoded = NoData
  /\ rest = NoRest
  /\ mode_call = NoModeCall

\* As Init, for every app key of AppKeys.
TopicInit ==
  /\ ObjectsInit
  /\ app_key \in AppKeys
  /\ entry = NoEntry
  /\ decoded = NoData
  /\ rest = NoRest
  /\ mode_call = NoModeCall

Next ==
  \/ Listen
  \/ AuthResponse
  \/ ConnectOk
  \/ SubAuthResponse
  \/ PublishOk
  \/ SubscribeOk
  \/ Message
  \/ HandlerReturn
  \/ HandlerRaise
  \/ BrokerError
  \/ OtherError
  \/ Wake
  \/ Cancel
  \/ Disconnect
  \/ Tick

Spec == Init /\ [][Next]_vars

\* As Init, for every raw entry of RawEntries.
DecodeInit ==
  /\ ObjectsInit
  /\ app_key = PlainKey
  /\ entry \in RawEntries
  /\ decoded = NoData
  /\ rest = NoRest
  /\ mode_call = NoModeCall

DecodeNext == CallFromMqttPayload

\* The decoder alone, applied to each raw entry.
DecodeSpec == DecodeInit /\ [][DecodeNext]_vars

TokenNext ==
  \/ \E t \in ClientTasks :
        \/ CallLogin(t)
        \/ LoginResponse(t)
        \/ CallGetEnergyFlow(t)
        \/ RefreshResponse(t)
        \/ RequestResponse(t)
        \/ TransportError(t)
  \/ Tick

\* The tasks that call one Sigen object concurrently, each logging in or
\* asking for the energy flow: the TokenManager and its callers.
TokenSpec == Init /\ [][TokenNext]_vars

BatchNext ==
  \/ CallLogin(Solo)
  \/ LoginResponse(Solo)
  \/ CallOp(Solo)
  \/ CallFetchSmartLoadIds(Solo)
  \/ RefreshResponse(Solo)
  \/ RequestResponse(Solo)
  \/ TransportError(Solo)
  \/ Tick

\* One task calling the REST operations of a Sigen object, the smart-load
\* batches included.
BatchSpec == Init /\ [][BatchNext]_vars

\* As Init, for every cached mode table and every answer of the request.
ModeInit ==
  /\ ObjectsInit
  /\ app_key = PlainKey
  /\ entry = NoEntry
  /\ decoded = NoData
  /\ rest = NoRest
  /\ \E d \in ListsOf(DefaultModes), e \in ListsOf(ProfileItems),
        m \in ModeValues, id \in ProfileIds :
       mode_call = [NoModeCall EXCEPT !.defaultWorkingModes = d,
                                      !.energyProfileItems = e,
                                      !.currentMode = m,
                                      !.currentProfileId = id]

ModeNext == CallGetCurrentOperationalMode

\* get_current_operational_mode alone, on each table and answer.
ModeSpec == ModeInit /\ [][ModeNext]_vars

InitNext ==
  \/ CallAsyncInitialize(Solo)
  \/ LoginResponse(Solo)
  \/ RefreshResponse(Solo)
  \/ RequestResponse(Solo)
  \/ TransportError(Solo)
  \/ Tick

\* One task calling async_initialize of a Sigen object.
InitSpec == Init /\ [][InitNext]_vars

RestNext ==
  \/ CallHelper
  \/ HelperResponse

\* One call of one REST helper.
RestSpec == Init /\ [][RestNext]_vars

\* The listen loop of a SigenMQTT built with any of the app keys.
TopicSpec == TopicInit /\ [][Next]_vars

\* The event loop runs due timers and the clock does not stop.
FairSpec == Spec /\ WF_vars(Tick) /\ WF_vars(Wake)

ClientNext ==
  \/ \E t \in ClientTasks :
        \/ CallLogin(t)
        \/ LoginResponse(t)
        \/ CallOp(t)
        \/ RefreshResponse(t)
        \/ RequestResponse(t)
        \/ TransportError(t)
  \/ Tick

\* The REST client of one Sigen object and the tasks that call it
\* concurrently.
ClientSpec == Init /\ [][ClientNext]_vars

SoloNext ==
  \/ CallLogin(Solo)
  \/ LoginResponse(Solo)
  \/ CallOp(Solo)
  \/ RefreshResponse(Solo)
  \/ RequestResponse(Solo)
  \/ CallInitNorthbound(Solo)
  \/ CallNbQueryMode(Solo)
  \/ NbLoginResponse(Solo)
  \/ NbRequestResponse(Solo)
  \/ TransportError(Solo)
  \/ Tick

CmdNext ==
  \/ Next
  \/ CallSend
  \/ CmdAuthResponse
  \/ CmdTransportError
  \/ CmdPublishOk
  \/ CmdPublishError

\* listen() and a second task that sends battery commands.
CmdSpec == Init /\ [][CmdNext]_vars

LinkNext ==
  \/ ListenNoCallbacks
  \/ AuthResponse
  \/ ConnectOk
  \/ SubAuthResponse
  \/ PublishOk
  \/ SubscribeOk
  \/ Message
  \/ BrokerError
  \/ OtherError
  \/ Wake
  \/ Cancel
  \/ Disconnect
  \/ Tick
  \/ CallSend
  \/ CmdAuthResponse
  \/ CmdTransportError
  \/ CmdPublishOk
  \/ CmdPublishError

\* listen() started without callbacks, a second task that sends battery
\* commands, and disconnect().
LinkSpec == Init /\ [][LinkNext]_vars

KeyNext ==
  \/ CallConnect
  \/ CmdAuthResponse
  \/ CmdTransportError
  \/ Tick

\* One task calling connect() on a SigenMQTT whose listen() was not started:
\* the key mechanism alone.
KeySpec == Init /\ [][KeyNext]_vars

\* The task has not touched the SigenMQTT object / the Sigen object.
MqttUnused == cmd = IdleCmd /\ ~nb_client.present
SigenUnused == tm = NoTokens /\ ~sigen_nb.present /\ tasks[Solo] = IdleTask

AuthNext ==
  \/ /\ MqttUnused
     /\ \/ CallLogin(Solo)
        \/ LoginResponse(Solo)
        \/ CallOp(Solo)
        \/ RefreshResponse(Solo)
        \/ RequestResponse(Solo)
        \/ CallInitNorthbound(Solo)
        \/ CallNbQueryMode(Solo)
        \/ NbLoginResponse(Solo)
        \/ NbRequestResponse(Solo)
        \/ TransportError(Solo)
  \/ /\ SigenUnused
     /\ \/ CallConnect
        \/ CmdAuthResponse
        \/ CmdTransportError
  \/ Tick

\* One task that works with one of the two objects, a Sigen or a SigenMQTT
\* whose listen() was not started: the three token stores, each with its own
\* mechanism.  The two objects share nothing but the clock.
AuthSpec == Init /\ [][AuthNext]_vars

\* One task calling one Sigen object: its REST client and its northbound
\* client.
SoloSpec == Init /\ [][SoloNext]_vars

\* ------------------------------------------------------------------ claims

LoopPositions == ListenAwaits \cup {"backoff"}
AttemptPositions == {"auth", "connect"}

\* C1: whenever listen() is receiving or dispatching a message, the open
\* broker session has received all three subscription requests and a
\* subscribe for every per-system topic; this holds on every session, the
\* first and each later one.
C1_SubscribedBeforeDispatch ==
  lpc \in {"recv", "handler"} =>
    /\ session.open
    /\ {session.pubs[i].topic : i \in 1..Len(session.pubs)} = CatSet
    /\ session.topics = AllTopics

\* A handler runs on a session that is not the first one.
C1_Witness ==
  /\ lpc = "handler"
  /\ conn >= 2
  /\ session.topics = AllTopics

\* C2: while listen() sleeps in the clause of a broker-level error it is
\* marked not connected and the sleep's deadline is 30 s after the fault;
\* it leaves the sleep (other than by cancellation) only once those 30 s
\* have passed, and then starts a new Connect attempt.
C2_Sleeping ==
  lpc = "backoff" /\ backoff.kind = "broker" =>
    /\ ~connected
    /\ mqtt_client = None
    /\ backoff.until = backoff.at + 30
C2_Leaving ==
  (lpc = "backoff" /\ backoff.kind = "broker" /\ lpc' \notin {"backoff", "cancelled"})
    => (now >= backoff.at + 30 /\ lpc' \in AttemptPositions)
\* C2: a broker-level error is followed by a wait of 30 seconds and then by
\* a new attempt.
C2_BrokerBackoff == []C2_Sleeping /\ [][C2_Leaving]_vars

\* The 30 s of a broker-level backoff have passed and the loop is about to
\* start its next pass.
C2_Witness ==
  /\ lpc = "backoff"
  /\ backoff.kind = "broker"
  /\ backoff.from = "recv"
  /\ now >= backoff.at + 30

\* C3: an error that is neither broker-level nor a cancellation puts
\* listen() to sleep, not connected, with a deadline 60 s after the fault;
\* a failure of the token request always takes this clause; the loop leaves
\* the sleep (other than by cancellation) only once the 60 s have passed,
\* and then starts a new Connect attempt.
C3_Sleeping ==
  /\ lpc = "backoff" /\ backoff.kind = "other" =>
        /\ ~connected
        /\ mqtt_client = None
        /\ backoff.until = backoff.at + 60
  /\ lpc = "backoff" /\ backoff.from \in HttpAwaits => backoff.kind = "other"
C3_Leaving ==
  (lpc = "backoff" /\ backoff.kind = "other" /\ lpc' \notin {"backoff", "cancelled"})
    => (now >= backoff.at + 60 /\ lpc' \in AttemptPositions)
\* C3: any other error but a cancellation is followed by a wait of 60
\* seconds and then by a new attempt.
C3_OtherBackoff == []C3_Sleeping /\ [][C3_Leaving]_vars

\* The 60 s after an exception of the change or alarm handler have passed.
C3_Witness ==
  /\ lpc = "backoff"
  /\ backoff.kind = "other"
  /\ backoff.from = "handler"
  /\ now >= backoff.at + 60

\* The 60 s after a failed token request at Connect have passed.
C3_WitnessAuth ==
  /\ lpc = "backoff"
  /\ backoff.kind = "other"
  /\ backoff.from = "auth"
  /\ now >= backoff.at + 60

\* C4: once started, listen() is always at a position of its loop unless it
\* was cancelled, and every backoff is followed by a new Connect attempt
\* (or by a cancellation).
C4_InLoop ==
  (lpc /= "idle" /\ lpc \notin LoopPositions)
    => (lpc = "cancelled" /\ backoff.kind = "cancelled")
C4_Leaving ==
  (lpc \in LoopPositions /\ lpc' \notin LoopPositions)
    => (lpc' = "cancelled" /\ backoff'.kind = "cancelled")
\* C4: listen() leaves its loop only by cancellation, and every backoff
\* leads to a new attempt or to the cancellation.
C4_OnlyCancellationEnds ==
  /\ []C4_InLoop
  /\ [][C4_Leaving]_vars
  /\ (lpc = "backoff" ~> lpc \in AttemptPositions \cup {"cancelled"})

\* A new Connect attempt after a fault that closed a broker session.
C4_Witness ==
  /\ lpc \in AttemptPositions
  /\ conn >= 1

\* C5: once the cancellation has reached the caller, listen() makes no
\* further step, connected is false and the broker client handle is None,
\* whatever await the cancellation was delivered at.
C5_Cleared == lpc = "cancelled" => (~connected /\ mqtt_client = None)
C5_NoFurtherStep == lpc = "cancelled" => lpc' = "cancelled"
\* C5: a cancelled listen() has cleared its connection state and takes no
\* further step.
C5_CancelStops == []C5_Cleared /\ [][C5_NoFurtherStep]_vars

\* Cancelled while streaming.
C5_Witness ==
  /\ lpc = "cancelled"
  /\ backoff.from = "recv"

\* Cancelled during a backoff sleep.
C5_WitnessBackoff ==
  /\ lpc = "cancelled"
  /\ backoff.from = "backoff"

\* C6: after disconnect() has returned while listen() was running,
\* connected stays false, no handler is invoked and no Connect attempt is
\* started.
C6_StaysDisconnected == disc = "running" => ~connected
C6_NoFurtherActivity ==
  disc = "running" =>
    /\ (lpc' = "handler" => lpc = "handler")
    /\ (lpc' \in AttemptPositions => lpc \in AttemptPositions)
\* C6: after disconnect() the session stays disconnected and listen() starts
\* nothing new.
C6_DisconnectStopsSession == []C6_StaysDisconnected /\ [][C6_NoFurtherActivity]_vars

\* -------------------------------------------------- Claims: token validity

\* The step is one in which task t ran TokenManager.ensure_valid_token: the
\* task went on to the refresh request or, the checks passed, to the request
\* of its operation.
C7_TmChecked(t) ==
  \/ tasks[t].pc = "idle" /\ tasks'[t].pc \in {"refresh", "request"}
  \/ tasks[t].pc = "refresh" /\ tasks'[t].pc = "request"

C7_TmStep ==
  \A t \in ClientTasks :
    C7_TmChecked(t) =>
      (tasks'[t].pc = "refresh"
         <=> (tm'.token_expiry /= None /\ now' >= tm'.token_expiry))

\* The step is one in which task t ran NorthboundClient.ensure_token
\* (init_northbound logs in without a check and has nothing left to do).
C7_NbChecked(t) ==
  /\ tasks[t].pc = "idle"
  /\ \/ tasks'[t].pc = "nb_request"
     \/ tasks'[t].pc = "nb_login" /\ tasks'[t].rest /= <<>>

C7_NbStep ==
  \A t \in ClientTasks :
    C7_NbChecked(t) =>
      (tasks'[t].pc = "nb_login"
         <=> \/ sigen_nb.access_token = None
             \/ (sigen_nb.token_expiry /= None /\ now >= sigen_nb.token_expiry))

C7_NbStepExpiryOnly ==
  \A t \in ClientTasks :
    C7_NbChecked(t) =>
      (tasks'[t].pc = "nb_login"
         <=> (sigen_nb.token_expiry /= None /\ now >= sigen_nb.token_expiry))

\* C7 (as amended): ensure_valid_token refreshes if and only if an expiry is
\* stored and now >= expiry; ensure_token logs in again if and only if no
\* token is stored or an expiry is stored and now >= expiry.  At
\* now = expiry the token is stale; before it no request precedes the call.
C7_StaleIffRenewed == [][C7_TmStep /\ C7_NbStep]_vars

\* C7 (as stated): both checks renew the token if and only if now >= expiry.
C7_RenewedIffExpired == [][C7_TmStep /\ C7_NbStepExpiryOnly]_vars

\* The check of nb_query_mode() has started a login because the northbound
\* client holds no token (and no expiry), after a TokenManager whose token
\* had reached its expiry was refreshed.
C7_Witness ==
  /\ tasks[Solo].pc = "nb_login"
  /\ tasks[Solo].rest /= <<>>
  /\ sigen_nb.access_token = None
  /\ sigen_nb.token_expiry = None
  /\ tm.token_expiry /= None
  /\ tm.token_expiry > StartTime + TickS

\* Task t puts an authenticated REST request on the wire in this step.
C8_Sends(t) == tasks'[t].pc = "request" /\ tasks'[t] /= tasks[t]

C8_TokenUsable ==
  \A t \in ClientTasks :
    C8_Sends(t) =>
      /\ tm'.access_token /= None
      /\ ~(tm'.token_expiry /= None /\ now' >= tm'.token_expiry)

\* C8: no authenticated request goes on the wire with an absent token or
\* with a token whose expiry has passed.
C8_NoAbsentOrStaleOnWire == [][C8_TokenUsable]_vars

\* C9: every authenticated request in flight was preceded by a validity
\* check of its own, with no other network call in between.
C9_EveryCallChecked ==
  \A t \in ClientTasks :
    tasks[t].pc \in {"request", "nb_request"} => tasks[t].call.checked

C10_Step ==
  \A t \in ClientTasks :
    (/\ tasks[t].pc = "refresh"
     /\ tasks'[t].pc = "idle"
     /\ tasks'[t].seen \in {"non200", "lacks"})
    => /\ tasks'[t].exc = "SigenTokenExpiredError"
       /\ IsAuthError(tasks'[t].exc)
       /\ tm' = tm

\* C10: a refresh that fails on a non-200 status or on a response lacking
\* one of the three fields raises SigenTokenExpiredError and leaves
\* access_token, refresh_token and token_expiry as they were.
C10_FailedRefreshKeepsTokens == [][C10_Step]_vars

\* A refresh has just failed on a response lacking a field, and the stale
\* token state is still there.
C10_Witness ==
  \E t \in ClientTasks :
    /\ tasks[t].pc = "idle"
    /\ tasks[t].exc = "SigenTokenExpiredError"
    /\ tasks[t].seen = "lacks"
    /\ tm.access_token \in Tokens
    /\ tm.refresh_token \in Tokens
    /\ tm.token_expiry /= None
    /\ now >= tm.token_expiry

\* ------------------------------------------------ Claims: login and refresh

C11_Step ==
  \A t \in ClientTasks :
    (/\ tasks[t].pc = "login"
     /\ tasks'[t].pc = "idle"
     /\ tasks'[t].seen \in {"non200", "lacks"})
    => /\ tasks'[t].exc = "SigenAuthError"
       /\ tm' = tm

\* C11: a password login answered by 401, by another non-200 status or by a
\* response lacking one of the three fields raises SigenAuthError and leaves
\* the token store as it was.
C11_FailedLoginKeepsStore == [][C11_Step]_vars

\* A first login has just failed on a response lacking a field and the
\* store is still unpopulated.
C11_Witness ==
  \E t \in ClientTasks :
    /\ tasks[t].pc = "idle"
    /\ tasks[t].exc = "SigenAuthError"
    /\ tasks[t].seen = "lacks"
    /\ tm = NoTokens

C12_Answered == cmd.pc = "auth" /\ cmd'.pc /= "auth" /\ cmd'.resp /= NoResponse

C12_Rejected ==
  (C12_Answered /\ cmd'.resp.code /= 0)
    => /\ cmd'.exc = "SigenAuthError"
       /\ nb_client' = nb_client

C12_Accepted ==
  (/\ C12_Answered
   /\ cmd'.resp.code = 0
   /\ cmd'.resp.accessToken \in Tokens
   /\ cmd'.resp.expiresIn /= NotANumber)
    => /\ cmd'.exc = "none"
       /\ nb_client'.present
       /\ nb_client'.access_token = cmd'.resp.accessToken
       /\ nb_client'.token_expiry =
            now + (IF cmd'.resp.expiresIn = Absent THEN 43199
                   ELSE cmd'.resp.expiresIn)

\* C12: a key login whose envelope has code /= 0 raises SigenAuthError and
\* leaves access_token and token_expiry unchanged; one with code = 0 installs
\* the accessToken of data (an object, or a string parsed a second time) with
\* expiry = now + expiresIn, 43199 seconds when expiresIn is absent.
C12_KeyLogin == [][C12_Rejected /\ C12_Accepted]_vars

\* A login just installed the token of a doubly encoded data without
\* expiresIn.
C12_Witness ==
  /\ cmd.pc = "idle"
  /\ cmd.resp.code = 0
  /\ cmd.resp.str
  /\ cmd.resp.expiresIn = Absent
  /\ cmd.resp.accessToken \in Tokens
  /\ nb_client.access_token = cmd.resp.accessToken
  /\ nb_client.token_expiry > DEFAULT_EXPIRES_IN

\* A re-login was just rejected and the client still holds its stale token.
C12_WitnessRejected ==
  /\ cmd.pc = "idle"
  /\ cmd.resp.code = 1
  /\ cmd.exc = "SigenAuthError"
  /\ nb_client.access_token \in Tokens
  /\ now >= nb_client.token_expiry

C13_Whole ==
  tm' /= tm =>
    /\ tm'.access_token \in Tokens
    /\ tm'.refresh_token = tm'.access_token
    /\ \E e \in ExpiresInValues : tm'.token_expiry = now + e

\* C13: every login or refresh either leaves the token store as it was or
\* installs a whole grant: the access token, its refresh token and the
\* expiry computed from the same response.
C13_NeverPartial == [][C13_Whole]_vars

\* The validity check of a call found the token stale and awaits the login
\* of the store's mechanism.
C14_Mechanism ==
  /\ \A t \in ClientTasks :
       /\ (tasks[t].pc = "idle" /\ tasks'[t].pc = "refresh")
            => tasks'[t].call.ep = "refresh"
       /\ (C7_NbChecked(t) /\ tasks'[t].pc = "nb_login")
            => tasks'[t].call.ep =
                 (IF sigen_nb.keyed THEN "login_with_key" ELSE "login")
  /\ (cmd.pc = "idle" /\ cmd'.pc = "auth")
       => cmd'.ep = "login_with_key"

\* The awaited refresh or login is over: no other one follows inside the
\* check, and a failure has reached the caller.
C14_Single ==
  /\ \A t \in ClientTasks :
       (tasks[t].pc \in {"refresh", "nb_login"} /\ tasks'[t] /= tasks[t])
         => /\ tasks'[t].pc \in {"idle", "request", "nb_request"}
            /\ tasks'[t].seen \in {"non200", "lacks", "badnum", "rejected"}
                 => (tasks'[t].pc = "idle" /\ tasks'[t].exc /= "none")
  /\ (cmd.pc = "auth" /\ cmd' /= cmd)
       => /\ cmd'.pc /= "auth"
          /\ (cmd'.resp.code /= 0 \/ cmd'.resp.accessToken = Absent
              \/ cmd'.resp.expiresIn = NotANumber)
               => (cmd'.pc = "idle" /\ cmd'.exc /= "none")

\* C14: a check that finds the token stale makes one authentication attempt,
\* by the mechanism of its store (refresh exchange, key login, password
\* login); a failed attempt is raised to the caller without a second one.
C14_OneAttemptByMechanism == [][C14_Mechanism /\ C14_Single]_vars

\* A key-configured client whose token has expired is logging in again with
\* its key.
C14_Witness ==
  /\ cmd.pc = "auth"
  /\ ~cmd.first
  /\ cmd.ep = "login_with_key"
  /\ nb_client.keyed
  /\ nb_client.access_token \in Tokens
  /\ now >= nb_client.token_expiry

\* A password client's re-login was rejected and the error reached the caller.
C14_WitnessPassword ==
  /\ tasks[Solo].pc = "idle"
  /\ tasks[Solo].seen = "rejected"
  /\ tasks[Solo].exc = "SigenAuthError"
  /\ sigen_nb.access_token \in Tokens

\* ---------------------------------------------------- Claims: concurrency

\* C15: at most one refresh request is outstanding at any time for the
\* token store, however many tasks found the token stale.
C15_SingleInFlightRefresh ==
  Cardinality({t \in ClientTasks : tasks[t].pc = "refresh"}) <= 1

\* C16: whenever the tasks are suspended, the stored access token, refresh
\* token and expiry come from one response: the two tokens are those of one
\* grant and the expiry is there exactly when they are.
C16_GroupFromOneResponse ==
  /\ tm.refresh_token = tm.access_token
  /\ tm.access_token = None <=> tm.token_expiry = None

\* ------------------------------------------------ Claims: battery commands

\* The session is in the Streaming state: subscribed and receiving.
C17_Streaming == lpc \in {"recv", "handler"}

C17_Call ==
  (cmd.pc = "idle" /\ cmd' /= cmd /\ ~C17_Streaming)
    => (cmd'.pc = "idle" /\ cmd'.exc = "RuntimeError")

\* C17: send_battery_commands called while the session is not Streaming
\* raises the "MQTT not connected" error and publishes nothing.
C17_FailsFastUnlessStreaming == [][C17_Call]_vars

\* C18: no publish of send_battery_commands carries more than 24 commands.
C18_AtMost24 == cmd.pc = "publish" => cmd.n <= 24

\* C19: whatever the listen loop does between the connected check and the
\* publish, the call publishes on the client that is stored at publish time
\* or fails as not connected; it never calls publish on a cleared handle.
C19_NeverUsesClearedHandle ==
  /\ cmd.exc /= "AttributeError"
  /\ cmd.pc = "publish" => cmd.handle /= None

\* ------------------------------------------------- Claims: inbound messages

\* The loop has just taken a message whose payload is not JSON.
C20_Skip ==
  (lpc = "recv" /\ cur.cat /= "skipped" /\ cur'.cat = "skipped")
    => /\ lpc' = "recv"
       /\ session'.open /\ session' = session
       /\ connected' = connected /\ mqtt_client' = mqtt_client

\* After the skipped message the loop takes the next one, and dispatches it
\* when a handler is registered for its category.
C20_Next ==
  (lpc = "recv" /\ cur.cat = "skipped" /\ handlers["change"])
    => ENABLED (Message /\ lpc' = "handler")

C21_DispatchedByCategory ==
  lpc = "handler" => (cur.cat = cur.of /\ handlers[cur.of])

\* C22: a pass of the listen loop starts with a validity check of the
\* stored token: when there is no client or the token is stale, a key login
\* is awaited and no connection is opened meanwhile; the attempt to connect
\* begins only from the start of a pass or from the answer of that login,
\* with the token then stored, which is not stale at that instant; the
\* token is kept through the attempt and is the password of the session
\* the broker opens.
C22_PassStarts == lpc \in {"idle", "backoff"} /\ lpc' \in {"auth", "connect"}
C22_Checked == C22_PassStarts => ((lpc' = "auth") <=> NeedsLogin)
C22_ConnectBegins == lpc /= "connect" /\ lpc' = "connect"
C22_FromCheck == C22_ConnectBegins => (lpc \in {"idle", "backoff", "auth"} /\ token' = nb_client'.access_token /\ ~NbStale(nb_client', now'))
C22_Fresh == (C22_ConnectBegins /\ lpc = "auth") => (nb_client'.token_expiry > now' /\ ~session'.open)
C22_Kept == (lpc = "connect" /\ lpc' = "connect") => (token' = token /\ ~session'.open)
C22_Opened == (~session.open /\ session'.open) => (lpc = "connect" /\ session'.password = token)
C22_PasswordFromCheck ==
  [][C22_Checked /\ C22_FromCheck /\ C22_Fresh /\ C22_Kept /\ C22_Opened]_vars

\* A reconnect whose pass found the token expired: the second session is
\* open with the token of a login made after the first one.
C22_Witness ==
  /\ session.open
  /\ conn = 2
  /\ session.pubs = <<>>
  /\ lpc = "publish"
  /\ session.password = nb_client.access_token
  /\ nb_client.token_expiry > StartTime + TickS
  /\ nb_client.token_expiry < DEFAULT_EXPIRES_IN

\* The fields of a decoded record and the key each is read from.
C23_KeyOf ==
  [pv_power_kw |-> "pvPowerW",
   battery_power_kw |-> "storageChargeDischargePowerW",
   soc_percent |-> "storageSOC%",
   grid_power_kw |-> "gridActivePowerW",
   load_power_kw |-> "loadActivePowerW"]

\* C23: from_mqtt_payload raises for no raw entry, and in its record every
\* field whose key is absent, null or not a number is 0.0 while every field
\* whose key holds a number has the magnitude of that number.
C23_NeverRaises ==
  decoded.called =>
    /\ decoded.exc = "none"
    /\ \A f \in DOMAIN C23_KeyOf :
         LET raw == entry.fields[C23_KeyOf[f]]
         IN  IF entry.value = "dict" /\ raw.kind = "num"
               THEN decoded[f].num * decoded[f].num = raw.n * raw.n
               ELSE RatEq(decoded[f], Zero)

\* C24: for a raw entry whose five fields are numbers, the watt fields are
\* divided by 1000, the grid power keeps its sign, the state of charge is
\* not scaled, and the battery power is the negation of the raw value
\* divided by 1000.
C24_AllNumeric ==
  entry.value = "dict" /\ \A k \in FieldKeys : entry.fields[k].kind = "num"
C25_NonNegative ==
  (decoded.called /\ decoded.exc = "none") =>
    (decoded.pv_power_kw.num >= 0 /\ decoded.load_power_kw.num >= 0)

\* C26: a REST helper that received a status of 400 or more has raised
\* SigenAPIError and has returned nothing.
C26_ErrorStatusRaises ==
  (rest.pc = "done" /\ rest.status >= 400) =>
    (rest.exc = "SigenAPIError" /\ rest.value = "none")

\* C27: whatever a request made for one load of a smart-load batch ends in
\* (an answer, an answer without data, an exception), the batch goes on:
\* either the consumption of the same load is asked for after its details,
\* or the next load that has a path is asked for, with all the loads after
\* it still to come, or no such load is left and the operation returns
\* without an exception.
C27_WithPath(loads) == SelectSeq(loads, LAMBDA l : l /= 0)
C27_Left == C27_WithPath(Tail(tasks[Solo].loads))
C27_PerLoadStep == tasks[Solo].pc = "request" /\ tasks[Solo].call.ep \in PerLoad /\ tasks'[Solo] /= tasks[Solo]
C27_SameLoad == tasks[Solo].call.ep = "details" /\ tasks'[Solo].pc = "request" /\ tasks'[Solo].call.ep = "consumption" /\ tasks'[Solo].loads = tasks[Solo].loads
C27_NextOne == C27_Left /= <<>> /\ tasks'[Solo].pc = "request" /\ tasks'[Solo].call.ep \in PerLoad /\ C27_WithPath(tasks'[Solo].loads) = C27_Left
C27_Returns == C27_Left = <<>> /\ tasks'[Solo].pc = "idle" /\ tasks'[Solo].exc = "none"
C27_BatchGoesOn ==
  [][C27_PerLoadStep => (C27_SameLoad \/ C27_NextOne \/ C27_Returns)]_vars

\* After a failure on one load, a later load of the same batch is asked for.
C27_Witness ==
  /\ tasks[Solo].failed
  /\ tasks[Solo].pc = "request"
  /\ tasks[Solo].call.ep \in {"details", "ids_details"}
  /\ tasks[Solo].loads /= <<>>

\* C28: in an open session the subscription requests published so far are
\* the first ones of period, change, alarm, in that order and once each,
\* all with the same token and the whole list of system ids, and no topic
\* is subscribed before the three are published; the token is the one the
\* validity check at the start of the subscribe step returned: not stale at
\* that instant, kept until the last publish and put into each request.
C28_Published ==
  session.open =>
    /\ Len(session.pubs) <= 3
    /\ \A i \in 1..Len(session.pubs) :
         /\ session.pubs[i].topic = Cats[i]
         /\ session.pubs[i].systemIdList = SystemIds
         /\ session.pubs[i].accessToken = session.pubs[1].accessToken
    /\ (session.topics /= {} \/ lpc \in {"subscribe", "recv", "handler"})
          => Len(session.pubs) = 3
C28_StepBegins == lpc /= "publish" /\ lpc' = "publish"
C28_FromCheck == C28_StepBegins => (lpc \in {"connect", "sub_auth"} /\ session'.pubs = <<>> /\ token' = nb_client'.access_token /\ ~NbStale(nb_client', now'))
C28_Kept == (lpc = "publish" /\ lpc' = "publish") => token' = token
C28_Carried == (session.open /\ session'.open /\ session'.pubs /= session.pubs) => (lpc = "publish" /\ session'.pubs = Append(session.pubs, [topic |-> Cats[Len(session.pubs) + 1], accessToken |-> token, systemIdList |-> SystemIds]))
C28_SubscriptionRequests ==
  []C28_Published /\ [][C28_FromCheck /\ C28_Kept /\ C28_Carried]_vars

\* All three requests are out and topics are being subscribed, in a session
\* whose subscribe step had to renew the token the connection was opened
\* with.
C28_Witness ==
  /\ session.open
  /\ Len(session.pubs) = 3
  /\ session.topics /= {}
  /\ session.pubs[3].accessToken /= session.password

\* C29: a validity check of the stream session (at the start of a pass and
\* at the start of the subscribe step) that finds less than
\* TOKEN_REFRESH_MARGIN_S seconds left before the stored expiry goes for a
\* new token, and an open session never has a token that is past its
\* expiry.
C29_Check == (lpc \in {"idle", "backoff"} /\ lpc' \in {"auth", "connect"}) \/ (lpc = "connect" /\ lpc' \in {"sub_auth", "publish"})
C29_InMargin == nb_client.present /\ Truthy(nb_client.token_expiry) /\ nb_client.token_expiry - now < TOKEN_REFRESH_MARGIN_S
C29_Renews == (C29_Check /\ C29_InMargin) => lpc' \in {"auth", "sub_auth"}
C29_NotPastExpiry ==
  (session.open /\ Truthy(nb_client.token_expiry)) => now < nb_client.token_expiry
C29_RefreshBeforeExpiry ==
  []C29_NotPastExpiry /\ [][C29_Renews]_vars

\* C30: the telemetry callback runs for the decodable entries of a /period/
\* payload, one after the other in the order of the payload: it starts at
\* the first decodable entry, and when it returns or raises for an entry
\* the next decodable entry is taken, entries whose decoding fails being
\* passed over, until none is left and the loop waits for the next message;
\* none of this touches the connection or starts a backoff.
C30_Running ==
  (lpc = "handler" /\ cur.cat = "period") =>
    (cur.i \in 1..Len(cur.payload) /\ Decodable(cur.payload[cur.i]))
C30_After(p, i) == {j \in (i + 1)..Len(p) : Decodable(p[j])}
C30_Starts == (lpc = "recv" /\ lpc' = "handler" /\ cur'.cat = "period") => (C30_After(cur'.payload, 0) /= {} /\ \A j \in C30_After(cur'.payload, 0) : cur'.i <= j)
C30_EntryEnds == lpc = "handler" /\ cur.cat = "period" /\ cur' /= cur /\ lpc' /= "cancelled"
C30_Untouched == session' = session /\ connected' = connected /\ mqtt_client' = mqtt_client /\ backoff' = backoff /\ conn' = conn
C30_TakesNext == IF C30_After(cur.payload, cur.i) = {} THEN lpc' = "recv" ELSE (lpc' = "handler" /\ cur'.cat = "period" /\ cur'.payload = cur.payload /\ cur'.i \in C30_After(cur.payload, cur.i) /\ \A j \in C30_After(cur.payload, cur.i) : cur'.i <= j)
C30_EveryEntry ==
  []C30_Running /\ [][C30_Starts /\ (C30_EntryEnds => (C30_Untouched /\ C30_TakesNext))]_vars

\* The callback runs for the second entry of a payload whose first entry
\* could not be decoded.
C30_Witness ==
  /\ lpc = "handler"
  /\ cur.cat = "period"
  /\ cur.i = 2
  /\ ~Decodable(cur.payload[1])
  /\ session.open

\* ---------------------------------------------------------------------
\* C31: get_current_operational_mode resolves the label by this dispatch.
\* When currentMode is 9 the result is the name of the cached energy
\* profile whose profileId equals currentProfileId, whatever the default
\* modes hold (even when that key is missing); when currentMode is
\* anything else the result is the label of the cached default mode whose
\* value is the number of the mode, whatever the profiles hold; and when
\* nothing matches the result is "Unknown mode".
C31_NumberOf(text) == CHOOSE n \in 0..9 : ToString(n) = text
C31_ByValue(c) ==
  {i \in 1..Len(c.defaultWorkingModes.items) :
     C31_NumberOf(c.defaultWorkingModes.items[i].value) = c.currentMode}
C31_ById(c) ==
  {i \in 1..Len(c.energyProfileItems.items) :
     c.energyProfileItems.items[i].profileId = c.currentProfileId}
C31_First(S) == CHOOSE i \in S : \A j \in S : i <= j
C31_Expected(c) ==
  IF c.currentMode = 9
    THEN IF C31_ById(c) = {} THEN "Unknown mode"
         ELSE c.energyProfileItems.items[C31_First(C31_ById(c))].name
    ELSE IF C31_ByValue(c) = {} THEN "Unknown mode"
         ELSE c.defaultWorkingModes.items[C31_First(C31_ByValue(c))].label
C31_Consulted(c) ==
  IF c.currentMode = 9 THEN c.energyProfileItems ELSE c.defaultWorkingModes
C31_Dispatch ==
  (mode_call.called /\ C31_Consulted(mode_call).present)
    => /\ mode_call.exc = "none"
       /\ mode_call.result = C31_Expected(mode_call)

\* Mode 9 with a default mode of value "9" in the table and the matching
\* profile second in its list: the profile's name is returned.
C31_Witness ==
  /\ mode_call.called
  /\ mode_call.currentMode = 9
  /\ mode_call.defaultWorkingModes.present
  /\ \E i \in 1..Len(mode_call.defaultWorkingModes.items) :
       mode_call.defaultWorkingModes.items[i].value = "9"
  /\ Len(mode_call.energyProfileItems.items) = 2
  /\ mode_call.energyProfileItems.items[1].profileId /= mode_call.currentProfileId
  /\ mode_call.energyProfileItems.items[2].profileId = mode_call.currentProfileId
  /\ mode_call.result = mode_call.energyProfileItems.items[2].name

\* Another mode, answered from the default modes with the profiles' key
\* missing; and a mode no default mode has.
C31_WitnessDefault ==
  /\ mode_call.called
  /\ mode_call.currentMode = 1
  /\ ~mode_call.energyProfileItems.present
  /\ mode_call.result \in {"Eco", "Backup"}
C31_WitnessUnknown ==
  /\ mode_call.called
  /\ mode_call.currentMode = 0
  /\ mode_call.defaultWorkingModes.items /= <<>>
  /\ mode_call.energyProfileItems.items /= <<>>
  /\ mode_call.result = "Unknown mode"

\* ---------------------------------------------------------------------
\* C32: async_initialize runs its steps strictly in the order login,
\* station info, smart-load id cache, dynamic methods: a step begins only
\* from the step before it, and station_id, operational_modes and the id
\* cache are written only in their own steps.  If the login fails with
\* SigenAuthError, async_initialize ends there: no authenticated request
\* is sent, and station_id, smart_load_id_map and operational_modes keep
\* their values.
C32_Rank(stage) ==
  CASE stage = "login" -> 1 [] stage = "station" -> 2 [] stage = "ids" -> 3
    [] stage \in {"modes", "loads"} -> 4 [] OTHER -> 0
C32_Stage == tasks[Solo].stage
C32_StageAfter == tasks'[Solo].stage
C32_Begins == C32_Stage = "none" /\ C32_StageAfter /= "none"
C32_Moves == C32_Stage /= "none" /\ C32_StageAfter \notin {"none", C32_Stage}
C32_InOrder ==
  /\ C32_Begins => C32_StageAfter = "login"
  /\ C32_Moves => \/ C32_Rank(C32_StageAfter) = C32_Rank(C32_Stage) + 1
                  \/ C32_Stage = "modes" /\ C32_StageAfter = "loads"
  /\ C32_Moves => tasks'[Solo].exc = "none"
C32_OwnStep ==
  /\ station_id' /= station_id => C32_Stage = "station"
  /\ operational_modes' /= operational_modes => C32_Stage = "modes"
  /\ smart_load_id_map' /= smart_load_id_map => C32_Stage \in {"ids", "loads"}
C32_LoginFails ==
  C32_Stage = "login" /\ tasks'[Solo].exc = "SigenAuthError"
C32_NothingSent ==
  /\ tasks'[Solo].pc = "idle"
  /\ C32_StageAfter = "none"
  /\ UNCHANGED <<station_id, smart_load_id_map, operational_modes>>
C32_LoginOnly == C32_StageAfter = "login" => tasks'[Solo].pc = "login"
C32_Step ==
  C32_InOrder /\ C32_OwnStep /\ C32_LoginOnly /\ (C32_LoginFails => C32_NothingSent)
C32_InitializeInOrder == [][C32_Step]_vars

\* The login of a first async_initialize was refused: the call has raised
\* SigenAuthError and the three attributes are as constructed.
C32_Witness ==
  /\ tasks[Solo].pc = "idle"
  /\ tasks[Solo].exc = "SigenAuthError"
  /\ tasks[Solo].seen \in {"non200", "lacks"}
  /\ station_id = None
  /\ operational_modes = None
  /\ \A p \in LoadPaths : smart_load_id_map[p] = Absent

\* async_initialize is in its last step, with the three attributes set.
C32_WitnessLastStep ==
  /\ tasks[Solo].stage = "loads"
  /\ tasks[Solo].pc = "request"
  /\ station_id /= None
  /\ operational_modes /= None
  /\ \E p \in LoadPaths : smart_load_id_map[p] \in Ids

\* ---------------------------------------------------------------------
\* C33: at every suspension point of a SigenMQTT instance, after any
\* interleaving of listen, send_battery_commands and disconnect, the
\* connected flag is true exactly when the stored broker client handle is
\* set.
C33_FlagMatchesHandle == connected <=> mqtt_client /= None

\* disconnect() has run while listen() was in its session and the other
\* task was publishing commands: the flag and the handle are both cleared.
C33_Witness ==
  /\ disc = "running"
  /\ session.open
  /\ lpc \in MqttAwaits
  /\ cmd.pc = "publish"
  /\ ~connected
  /\ mqtt_client = None

\* ---------------------------------------------------------------------
\* C34: if the first key authentication of a SigenMQTT instance fails, the
\* instance keeps no northbound client (its state is unchanged), so the
\* next token check runs a full key authentication again instead of
\* returning an absent token; once a northbound client is stored it is
\* reused, and only its token is renewed.
C34_FirstFails == cmd.pc = "auth" /\ cmd.first /\ cmd'.pc = "idle" /\ cmd'.exc /= "none"
C34_CheckBegins == cmd.pc = "idle" /\ cmd' /= cmd
C34_FullAuth == cmd'.pc = "auth" /\ cmd'.first /\ cmd'.ep = "login_with_key"
C34_Reused ==
  /\ nb_client'.present /\ nb_client'.keyed = nb_client.keyed
  /\ C34_CheckBegins => (cmd'.pc = "auth" => ~cmd'.first /\ cmd'.ep = "login_with_key")
  /\ C34_CheckBegins => (cmd'.pc = "idle" => nb_client.access_token \in Tokens)
C34_Step ==
  /\ C34_FirstFails => (~nb_client.present /\ nb_client' = nb_client)
  /\ (~nb_client.present /\ C34_CheckBegins) => C34_FullAuth
  /\ nb_client.present => C34_Reused
C34_FailedFirstAuthKeepsNoClient == [][C34_Step]_vars

\* The first key authentication was refused: the call has raised and no
\* client is stored.
C34_Witness ==
  /\ ~nb_client.present
  /\ cmd.pc = "idle"
  /\ cmd.exc = "SigenAuthError"
  /\ cmd.resp.code /= 0
  /\ cmd.resp.code /= None

\* A stored client is renewing its token.
C34_WitnessRenewal ==
  /\ nb_client.present
  /\ cmd.pc = "auth"
  /\ ~cmd.first

\* ---------------------------------------------------------------------
\* C35: the smart-load id cache only grows and holds only resolved ids.
\* After any sequence of _fetch_smart_load_ids and
\* get_smart_loads_with_consumption calls no entry has a null id, no entry
\* is ever removed, and get_smart_loads_with_consumption issues no details
\* request for a load path that is already cached.
C35_Cached(id_map) == {p \in LoadPaths : id_map[p] /= Absent}
C35_Resolved == \A p \in C35_Cached(smart_load_id_map') : smart_load_id_map'[p] \in Ids
C35_Grows == C35_Cached(smart_load_id_map) \subseteq C35_Cached(smart_load_id_map')
C35_AsksDetails ==
  /\ tasks'[Solo] /= tasks[Solo]
  /\ tasks'[Solo].pc = "request"
  /\ tasks'[Solo].call.ep = "details"
C35_NotCached == Head(tasks'[Solo].loads) \notin C35_Cached(smart_load_id_map')
C35_Step == C35_Resolved /\ C35_Grows /\ (C35_AsksDetails => C35_NotCached)
C35_CacheOnlyGrows == [][C35_Step]_vars

\* get_smart_loads_with_consumption asks for the consumption of a load
\* whose id is cached, after a per-load request of the same batch has
\* failed: the failure has left the cached id in place.
C35_Witness ==
  /\ tasks[Solo].pc = "request"
  /\ tasks[Solo].call.ep = "consumption"
  /\ tasks[Solo].failed
  /\ smart_load_id_map[Head(tasks[Solo].loads)] \in Ids
====
